---- MODULE Spec2Model ----
(***************************************************************************)
(* Model of firecrawl-cli: the bulk scrape orchestrator                    *)
(* (handleAllScrapeCommand, src/src/commands/scrape.ts:629-892) and the    *)
(* browser session commands (src/src/commands/browser.ts,                  *)
(* src/src/utils/browser-session.ts, the browser subcommands of            *)
(* src/src/index.ts).                                                      *)
(*                                                                         *)
(* Conventions                                                             *)
(*   - a JavaScript value that may be undefined is a set: {} is undefined  *)
(*     and {v} is the value v;                                             *)
(*   - a string is a tuple of one-character strings, so that startsWith,   *)
(*     parseInt, trim and toLowerCase work on characters;                  *)
(*   - a URL is a record: parses says whether new URL(url) succeeds,       *)
(*     protocol, hostname, pathname and search are what the parsed URL     *)
(*     returns, text is the string itself when it does not parse;          *)
(*   - urls are referred to by their 1-based position in the list.         *)
(***************************************************************************)
EXTENDS Integers, Sequences, FiniteSets, TLC

\* ------------------------------------------------------------------ bounds
MaxUrls == 3
MaxCredits == 3
MaxConcurrency == 2
MaxLimit == 2
MaxSessions == 2
MaxCommands == 2
MaxCodeChunks == 4
MaxMessageChunks == 2
MaxPages == 2

\* ------------------------------------------------------- generic helpers
Min(a, b) == IF a <= b THEN a ELSE b

Range(s) == {s[i] : i \in DOMAIN s}

SeqsUpTo(S, n) == UNION {[1..k -> S] : k \in 0..n}

SliceOffByOne(s, n) == SubSeq(s, 1, Min(n + 1, Len(s)))

\* Array.prototype.slice(0, n) for n >= 0
Slice(s, n) == SubSeq(s, 1, Min(n, Len(s)))

\* String.prototype.startsWith
StartsWith(s, p) == Len(p) <= Len(s) /\ SubSeq(s, 1, Len(p)) = p


\* ------------------------------------------------------------ input sets
\* URLs the map call can discover: paths /a, /ab, /b, the root, and a
\* string that new URL() cannot parse.
Address(protocol, hostname, pathname, search) ==
  [parses |-> TRUE, protocol |-> protocol, hostname |-> hostname,
   pathname |-> pathname, search |-> search, text |-> <<>>]
Unparseable(text) ==
  [parses |-> FALSE, protocol |-> "", hostname |-> <<>>, pathname |-> <<>>,
   search |-> <<>>, text |-> text]
Url(p) == Address("https:", <<"h">>, p, <<>>)
BadUrl == Unparseable(<<"n", "o", " ", "u", "r", "l">>)
UrlPool == { Url(<<"/", "a">>), Url(<<"/", "a", "b">>), Url(<<"/", "b">>),
             Url(<<"/">>), BadUrl }

\* Path prefixes a caller can pass as --include-paths / --exclude-paths.
PathLists == { <<>>, << <<"/", "a">> >>, << <<"/", "b">> >>,
               << <<"/", "a", "b">>, <<"/", "b">> >> }

\* Format lists a caller can pass.
FormatLists == { <<>>, <<"markdown">>, <<"markdown", "html">>, <<"html">>,
                 <<"screenshot", "markdown">> }


\* ---------------------------------------------------------------- state
VARIABLES
  pc,                 \* where handleAllScrapeCommand is suspended
  exitCode,           \* {} while running, {c} once the process ended with c
  stderr,             \* what was written to the status stream, in order
  calls,              \* collaborators called so far (map, wizard, ...)
  yes, limit, includePaths, excludePaths,        \* allOptions
  formats, screenshot, fullPageScreenshot, onlyMainContent,  \* options
  isTTY,              \* process.stdin.isTTY
  mapResult,          \* the answer of executeMap, in flight until pc # "map"
  links,              \* mapResult.data.links once the map call returned
  matched,            \* urls as it stands at line 709, after the filters
  urls,               \* the local urls
  status,             \* the answer of getStatus
  maxConcurrency,
  answer,             \* the reply to the confirmation prompt while in scope
  total, urlIndex, completedCount, errorCount,
  workers,            \* the runWorker() promises: [pc, idx] each
  attempts,           \* attempts[i]: scrape calls issued for urls[i]
  scraped,            \* result.data of the scrapes that succeeded: [idx, page]
  made,               \* the mkdirSync calls so far: [idx, dir]
  files,              \* the writeFileSync calls so far: [idx, dir, name, content]
  tasks,              \* the processUrl calls suspended in a screenshot
                      \* download: [w, page, at, saved]
  answers             \* what the scrape calls settled with: [idx, settled]

optVars == <<yes, limit, includePaths, excludePaths, isTTY>>
fmtVars == <<formats, screenshot, fullPageScreenshot, onlyMainContent>>
mapVars == <<mapResult, links>>
diskVars == <<scraped, made, files, tasks, answers>>
execVars == <<total, urlIndex, completedCount, errorCount, workers, attempts,
              diskVars>>
scrapeVars == <<pc, exitCode, stderr, calls, optVars, fmtVars, mapVars, matched,
                urls, status, maxConcurrency, answer, execVars>>

\* State of the browser commands (src/src/commands/browser.ts and the
\* browser subcommands of src/src/index.ts).  One command runs at a time;
\* the session file outlives the commands.
VARIABLES
  store,              \* the records in browser-session.json (the file is
                      \* absent when the set is empty)
  issued,             \* session ids the remote API has handed out so far
  clock,              \* commands started so far, also the time of day
  bpc,                \* where the running browser command is suspended
  options,            \* the options object the handler was called with
  argv,               \* what the user typed: [code, python, node, bash]
  bcalls,             \* calls the running command made, in order
  bout,               \* what the running command wrote, in order
  bexit,              \* {} while running, {c} once the command ended with c
  thrown,             \* the error the running command caught, if any
  result              \* what executeBashLocally resolved with, if it did

browserVars == <<store, issued, clock, bpc, options, argv, bcalls, bout,
                 bexit, thrown, result>>

vars == <<scrapeVars, browserVars>>

Undef == {}
Val(o) == CHOOSE v \in o : TRUE
Opt(S) == {Undef} \cup {{v} : v \in S}

\* ----------------------------------------------------------- map phase
\* process.exit(code) after a message on the status stream
Exit(code, msg) ==
  /\ pc' = "exited"
  /\ exitCode' = {code}
  /\ stderr' = Append(stderr, msg)

\* The value of hasExplicitFlags as a boolean (lines 665-675).
hasExplicitFlags ==
  \/ yes
  \/ limit # Undef
  \/ includePaths # Undef
  \/ excludePaths # Undef
  \/ (formats # Undef /\ Len(Val(formats)) > 0 /\ Val(formats)[1] # "markdown")
  \/ screenshot
  \/ fullPageScreenshot
  \/ onlyMainContent = {TRUE}

IncludeKeepsExact(url, paths) ==
  IF url.parses
    THEN \E i \in DOMAIN paths : url.pathname = paths[i]
    ELSE FALSE

\* The predicate of the include filter (lines 687-694).
IncludeKeeps(url, paths) ==
  IF url.parses
    THEN \E i \in DOMAIN paths : StartsWith(url.pathname, paths[i])
    ELSE FALSE

\* The predicate of the exclude filter (lines 698-705).
ExcludeKeeps(url, paths) ==
  IF url.parses
    THEN ~ \E i \in DOMAIN paths : StartsWith(url.pathname, paths[i])
    ELSE TRUE

ApplyFlagFiltersAfterLimit(us, inc, exc) ==
  LET KeepInc(u) == IncludeKeeps(u, Val(inc))
      KeepExc(u) == ExcludeKeeps(u, Val(exc))
      cut == IF limit # Undef /\ Val(limit) > 0
               THEN SubSeq(us, 1, Min(Val(limit), Len(us))) ELSE us
      afterInc == IF inc # Undef /\ Len(Val(inc)) > 0
                    THEN SelectSeq(cut, KeepInc) ELSE cut
  IN IF exc # Undef /\ Len(Val(exc)) > 0
       THEN SelectSeq(afterInc, KeepExc) ELSE afterInc

\* Apply filters from flags (lines 685-706).
ApplyFlagFilters(us, inc, exc) ==
  LET KeepInc(u) == IncludeKeeps(u, Val(inc))
      KeepExc(u) == ExcludeKeeps(u, Val(exc))
      afterInc == IF inc # Undef /\ Len(Val(inc)) > 0
                    THEN SelectSeq(us, KeepInc) ELSE us
  IN IF exc # Undef /\ Len(Val(exc)) > 0
       THEN SelectSeq(afterInc, KeepExc) ELSE afterInc

ApplyLimitZeroToo(us, lim) ==
  IF lim # Undef /\ Val(lim) >= 0 THEN Slice(us, Val(lim)) ELSE us

\* if (limit && limit > 0) urls = urls.slice(0, limit)  (lines 714-716)
ApplyLimit(us, lim) ==
  IF lim # Undef /\ Val(lim) # 0 /\ Val(lim) > 0 THEN Slice(us, Val(lim)) ELSE us

AfterFilterUnchecked(us) ==
  /\ matched' = us
  /\ urls' = ApplyLimit(us, limit)
  /\ pc' = "status"
  /\ calls' = calls \cup {"getStatus"}
  /\ UNCHANGED <<exitCode, stderr>>

\* Lines 709-719: the empty check, the limit, and the call of getStatus.
AfterFilter(us) ==
  /\ matched' = us
  /\ IF Len(us) = 0
       THEN /\ Exit(1, [kind |-> "NoUrlsMatched"])
            /\ UNCHANGED <<urls, calls>>
       ELSE /\ urls' = ApplyLimit(us, limit)
            /\ pc' = "status"
            /\ calls' = calls \cup {"getStatus"}
            /\ UNCHANGED <<exitCode, stderr>>

\* !mapResult.success || !mapResult.data  (line 649)
MapFailed(r) == ~r.success \/ r.data = Undef

NoUrlsFoundNever(ls) == FALSE

\* urls.length === 0  (line 657)
NoUrlsFound(ls) == Len(ls) = 0

\* executeMap returns (lines 641-707).
MapReturns ==
  /\ pc = "map"
  /\ UNCHANGED browserVars
  /\ UNCHANGED <<optVars, fmtVars, mapResult, status, maxConcurrency, answer, execVars>>
  /\ IF MapFailed(mapResult)
       THEN /\ Exit(1, [kind |-> "MapError"])
            /\ UNCHANGED <<links, matched, urls, calls>>
       ELSE /\ links' = Val(mapResult.data)
            /\ IF NoUrlsFound(links')
                 THEN /\ Exit(1, [kind |-> "NoUrlsFound"])
                      /\ UNCHANGED <<matched, urls, calls>>
                 ELSE IF ~hasExplicitFlags /\ isTTY
                   THEN /\ pc' = "wizard"
                        /\ calls' = calls \cup {"wizard"}
                        /\ urls' = links'
                        /\ UNCHANGED <<matched, exitCode, stderr>>
                   ELSE AfterFilter(ApplyFlagFilters(links', includePaths, excludePaths))

\* -------------------------------------------------------------- wizard
\* The characters of s before its first "/" (parts[0] of split('/')).
RECURSIVE UntilSlash(_)
UntilSlash(s) ==
  IF s = <<>> \/ Head(s) = "/" THEN <<>> ELSE <<Head(s)>> \o UntilSlash(Tail(s))

\* '/' + parts[0] for a URL, as a set: {} when the URL contributes no
\* segment (lines 529-537).
TopSegment(url) ==
  IF ~url.parses THEN {}
  ELSE LET p == url.pathname
           stripped == IF p # <<>> /\ Head(p) = "/" THEN Tail(p) ELSE p
           first == UntilSlash(stripped)
       IN IF first = <<>> THEN {} ELSE {<<"/">> \o first}

\* The keys of the counts Map in insertion order.
RECURSIVE SegmentsInOrder(_, _)
SegmentsInOrder(us, seen) ==
  IF us = <<>> THEN <<>>
  ELSE LET seg == TopSegment(Head(us))
       IN IF seg = {} \/ Val(seg) \in seen
            THEN SegmentsInOrder(Tail(us), seen)
            ELSE <<Val(seg)>> \o SegmentsInOrder(Tail(us), seen \cup {Val(seg)})

\* Array.prototype.sort with (a, b) => b[1] - a[1]: stable, descending count.
RECURSIVE SortByCount(_)
SortByCount(entries) ==
  IF entries = <<>> THEN <<>>
  ELSE LET rest == SortByCount(Tail(entries))
           e == Head(entries)
           IsBefore(x) == x.count > e.count
           IsAfter(x) == x.count <= e.count
       IN SelectSeq(rest, IsBefore) \o <<e>> \o SelectSeq(rest, IsAfter)

\* getTopPaths (lines 526-542)
getTopPaths(us) ==
  LET segs == SegmentsInOrder(us, {})
      Count(seg) == Cardinality({i \in DOMAIN us : TopSegment(us[i]) = {seg}})
  IN SortByCount([i \in DOMAIN segs |-> [path |-> segs[i], count |-> Count(segs[i])]])

\* The values a checkbox prompt returns: the ticked choices, in choice order.
RECURSIVE Ticked(_, _, _)
Ticked(choices, ticks, i) ==
  IF i > Len(choices) THEN <<>>
  ELSE (IF i \in ticks THEN <<choices[i]>> ELSE <<>>) \o Ticked(choices, ticks, i + 1)

\* The choices of the format prompt (lines 561-569).
FormatChoices == <<"markdown", "html", "links", "images", "summary",
                   "screenshot", "fullPageScreenshot">>

\* What a user ticks at the format prompt.
FormatTicks == { {1}, {}, {2, 6}, {7} }

IsPlainFormat(c) == c # "fullPageScreenshot" /\ c # "screenshot"

\* runWizard returns (lines 547-627, then 679-683 and 709-719).
WizardReturns ==
  /\ pc = "wizard"
  /\ UNCHANGED browserVars
  /\ \E ticks \in FormatTicks, mainContent \in BOOLEAN :
       \E pathTicks \in (IF Len(getTopPaths(urls)) > 1
                           THEN SUBSET (1..Len(getTopPaths(urls))) ELSE {{}}) :
         LET formatChoices == Ticked(FormatChoices, ticks, 1)
             shot == screenshot \/ "screenshot" \in Range(formatChoices)
             full == fullPageScreenshot \/ "fullPageScreenshot" \in Range(formatChoices)
             plain == SelectSeq(formatChoices, IsPlainFormat)
             fmts == IF Len(plain) = 0 /\ ~shot /\ ~full THEN <<"markdown">> ELSE plain
             topPaths == getTopPaths(urls)
             pathChoices == Ticked([i \in DOMAIN topPaths |-> topPaths[i].path], pathTicks, 1)
             Keeps(u) == IncludeKeeps(u, pathChoices)
         IN /\ screenshot' = shot
            /\ fullPageScreenshot' = full
            /\ formats' = IF Len(fmts) > 0 THEN {fmts} ELSE formats
            /\ onlyMainContent' = IF mainContent THEN {TRUE} ELSE onlyMainContent
            /\ includePaths' = IF Len(pathChoices) > 0 THEN {pathChoices} ELSE includePaths
            /\ AfterFilter(IF Len(pathChoices) > 0 THEN SelectSeq(urls, Keeps) ELSE urls)
  /\ UNCHANGED <<yes, limit, excludePaths, isTTY, mapVars, status, maxConcurrency,
                 answer, execVars>>

\* ------------------------------------------------------- worker pool
\* The requested formats as processUrl computes them (lines 780-786).
EffectiveFormats ==
  LET base == IF formats # Undef THEN Val(formats) ELSE <<"markdown">>
  IN IF (screenshot \/ fullPageScreenshot) /\ "screenshot" \notin Range(base)
       THEN Append(base, "screenshot") ELSE base

\* One turn of the loop of runWorker for worker w (lines 868-870): claim the
\* URL under the cursor and issue its scrape call, or leave the loop.
\* st = [urlIndex, workers, attempts]; n = urls.length.
ClaimNext(st, w, n) ==
  IF st.urlIndex < n
    THEN [urlIndex |-> st.urlIndex + 1,
          workers  |-> [st.workers EXCEPT ![w] = [pc |-> "scraping", idx |-> st.urlIndex + 1]],
          attempts |-> [st.attempts EXCEPT ![st.urlIndex + 1] = @ + 1]]
    ELSE [st EXCEPT !.workers[w] = [pc |-> "done", idx |-> 0]]

\* Array.from({length}, () => runWorker()): every worker runs up to its
\* first await, in creation order (lines 874-877).
RECURSIVE StartWorkers(_, _, _)
StartWorkers(st, w, n) ==
  IF w > Len(st.workers) THEN st ELSE StartWorkers(ClaimNext(st, w, n), w + 1, n)

PoolSizeUncapped(cap, n) == n

\* Math.min(maxConcurrency, urls.length)  (line 875)
PoolSize(cap, n) == Min(cap, n)

\* Lines 754-879 up to the await of Promise.all.
StartExecution(us, cap) ==
  LET n == Len(us)
      st == StartWorkers([urlIndex |-> 0,
                          workers  |-> [w \in 1..PoolSize(cap, n) |-> [pc |-> "new", idx |-> 0]],
                          attempts |-> [i \in 1..n |-> 0]], 1, n)
  IN /\ pc' = "exec"
     /\ total' = n
     /\ completedCount' = 0
     /\ errorCount' = 0
     /\ urlIndex' = st.urlIndex
     /\ workers' = st.workers
     /\ attempts' = st.attempts
     /\ scraped' = {}
     /\ made' = {}
     /\ files' = {}
     /\ tasks' = {}
     /\ answers' = {}

\* ------------------------------------------------------------ preflight
\* What getStatus can answer: credits and concurrency are both optional.
StatusResults ==
  [credits : Opt(0..MaxCredits), concurrencyMax : Opt(1..MaxConcurrency)]

NotEnoughCreditsReversed(st, creditsNeeded) ==
  st.credits # Undef /\ creditsNeeded < Val(st.credits)

\* status.credits && creditsNeeded > remaining  (lines 722-726)
NotEnoughCredits(st, creditsNeeded) ==
  st.credits # Undef /\ creditsNeeded > Val(st.credits)

\* getStatus returns one of results (lines 719-741, and 754-879 when --yes
\* was passed).
StatusReturnsFrom(results) ==
  /\ pc = "status"
  /\ UNCHANGED browserVars
  /\ \E st \in results :
       LET cap == IF st.concurrencyMax # Undef /\ Val(st.concurrencyMax) # 0
                    THEN Val(st.concurrencyMax) ELSE Len(urls)
       IN /\ status' = st
          /\ maxConcurrency' = cap
          /\ IF NotEnoughCredits(st, Len(urls))
               THEN /\ Exit(1, [kind |-> "NotEnoughCredits", need |-> Len(urls),
                                have |-> Val(st.credits)])
                    /\ UNCHANGED <<calls, execVars>>
               ELSE IF ~yes
                 THEN /\ pc' = "ask"
                      /\ calls' = calls \cup {"ask"}
                      /\ UNCHANGED <<exitCode, stderr, execVars>>
                 ELSE /\ StartExecution(urls, cap)
                      /\ UNCHANGED <<exitCode, stderr, calls>>
  /\ UNCHANGED <<optVars, fmtVars, mapVars, matched, urls, answer>>

StatusReturns == StatusReturnsFrom(StatusResults)

\* --------------------------------------------------------- confirmation
AnswerChars == {"y", "Y", "0", "2", "-", " "}
MaxAnswerLen == 2

IsDigit(c) == c \in {"0", "1", "2", "3", "4", "5", "6", "7", "8", "9"}
DigitValue(c) ==
  CASE c = "0" -> 0 [] c = "1" -> 1 [] c = "2" -> 2 [] c = "3" -> 3 [] c = "4" -> 4
    [] c = "5" -> 5 [] c = "6" -> 6 [] c = "7" -> 7 [] c = "8" -> 8 [] c = "9" -> 9

RECURSIVE TrimStart(_)
TrimStart(s) == IF s # <<>> /\ Head(s) = " " THEN TrimStart(Tail(s)) ELSE s

RECURSIVE TrimEnd(_)
TrimEnd(s) ==
  IF s # <<>> /\ s[Len(s)] = " " THEN TrimEnd(SubSeq(s, 1, Len(s) - 1)) ELSE s

\* String.prototype.trim
Trim(s) == TrimEnd(TrimStart(s))

\* String.prototype.toLowerCase, on the letters A-Z
UpperCase ==
  <<"A", "B", "C", "D", "E", "F", "G", "H", "I", "J", "K", "L", "M",
    "N", "O", "P", "Q", "R", "S", "T", "U", "V", "W", "X", "Y", "Z">>

LowerCase ==
  <<"a", "b", "c", "d", "e", "f", "g", "h", "i", "j", "k", "l", "m",
    "n", "o", "p", "q", "r", "s", "t", "u", "v", "w", "x", "y", "z">>

ToLowerChar(c) ==
  IF \E i \in DOMAIN UpperCase : UpperCase[i] = c
    THEN LowerCase[CHOOSE i \in DOMAIN UpperCase : UpperCase[i] = c]
    ELSE c

ToLowerCase(s) == [i \in DOMAIN s |-> ToLowerChar(s[i])]

\* The value of the longest prefix of digits of s, given the value acc of the
\* digits read so far.
RECURSIVE DigitsValue(_, _)
DigitsValue(s, acc) ==
  IF s = <<>> \/ ~IsDigit(Head(s)) THEN acc
  ELSE DigitsValue(Tail(s), 10 * acc + DigitValue(Head(s)))

\* parseInt(s, 10): {} is NaN. Leading white space is skipped, one sign is
\* accepted, then the longest run of digits is read; what follows is ignored.
parseInt(s) ==
  LET t == TrimStart(s)
      neg == t # <<>> /\ Head(t) = "-"
      body == IF t # <<>> /\ Head(t) \in {"-", "+"} THEN Tail(t) ELSE t
  IN IF body = <<>> \/ ~IsDigit(Head(body)) THEN {}
     ELSE {(IF neg THEN -1 ELSE 1) * DigitsValue(body, 0)}

\* ask() resolves with the line the user typed, trimmed (lines 510-524,
\* 742); the line is made of chars.
AskReturnsFrom(chars) ==
  /\ pc = "ask"
  /\ UNCHANGED browserVars
  /\ \E typed \in SeqsUpTo(chars, MaxAnswerLen) : answer' = {Trim(typed)}
  /\ pc' = "answered"
  /\ UNCHANGED <<exitCode, stderr, calls, optVars, fmtVars, mapVars, matched, urls,
                 status, maxConcurrency, execVars>>

AskReturns == AskReturnsFrom(AnswerChars)

AbortExitCodeOne == 2 - 1

\* process.exit(0) of an aborted confirmation (line 750)
AbortExitCode == 0

\* The continuation of handleAllScrapeCommand after ask (lines 743-879). The
\* constant answer lives in the block of "if (!yes)": it is gone once the
\* block is left, and still there when process.exit(0) ends the run inside it.
Confirm ==
  /\ pc = "answered"
  /\ UNCHANGED browserVars
  /\ LET asNumber == parseInt(Val(answer))
     IN IF asNumber # {} /\ Val(asNumber) > 0
          THEN /\ urls' = Slice(urls, Val(asNumber))
               /\ stderr' = Append(stderr, [kind |-> "Limiting", n |-> Len(urls')])
               /\ StartExecution(urls', maxConcurrency)
               /\ answer' = Undef
               /\ UNCHANGED exitCode
          ELSE IF ToLowerCase(Val(answer)) # <<"y">>
            THEN /\ Exit(AbortExitCode, [kind |-> "Aborted"])
                 /\ UNCHANGED <<urls, answer, execVars>>
            ELSE /\ StartExecution(urls, maxConcurrency)
                 /\ answer' = Undef
                 /\ UNCHANGED <<urls, exitCode, stderr>>
  /\ UNCHANGED <<calls, optVars, fmtVars, mapVars, matched, status, maxConcurrency>>

\* ------------------------------------------------------------ execution
\* What the loop of runWorker does after processUrl resolved: next turn.
Continue(w, ws) ==
  LET st == ClaimNext([urlIndex |-> urlIndex, workers |-> ws, attempts |-> attempts],
                      w, Len(urls))
  IN /\ urlIndex' = st.urlIndex
     /\ workers' = st.workers
     /\ attempts' = st.attempts

ProgressLine(kind, n, idx) == [kind |-> kind, n |-> n, total |-> total, idx |-> idx]

\* An exception leaves processUrl: runWorker rejects, Promise.all rejects,
\* handleAllScrapeCommand rejects and the process ends with code 1.
Reject(w) ==
  /\ workers' = [workers EXCEPT ![w].pc = "rejected"]
  /\ pc' = "rejected"
  /\ exitCode' = {1}
  /\ stderr' = Append(stderr, [kind |-> "Uncaught"])

setupVars == <<calls, optVars, fmtVars, mapVars, matched, urls, status,
               maxConcurrency, answer, total>>

\* ---- where the results go (lines 482-492, 754, 788-793)
Digits == {"0", "1", "2", "3", "4", "5", "6", "7", "8", "9"}

\* url.replace(/[^a-zA-Z0-9.-]/g, '_')  (line 490)
Sanitize(text) ==
  [i \in DOMAIN text |->
     IF text[i] \in Range(LowerCase) \cup Range(UpperCase) \cup Digits \cup {".", "-"}
       THEN text[i] ELSE "_"]

\* hostname.replace(/^www\./, '')  (line 485)
StripWww(host) ==
  IF StartsWith(host, <<"w", "w", "w", ".">>) THEN SubSeq(host, 5, Len(host))
  ELSE host

\* pathname.replace(/^\/|\/$/g, '')  (line 486): one slash off each end
StripSlashes(s) ==
  LET a == IF s # <<>> /\ Head(s) = "/" THEN Tail(s) ELSE s
  IN  IF a # <<>> /\ a[Len(a)] = "/" THEN SubSeq(a, 1, Len(a) - 1) ELSE a

\* s.replace(/\/$/, '')  (line 789)
StripTrailingSlash(s) ==
  IF s # <<>> /\ s[Len(s)] = "/" THEN SubSeq(s, 1, Len(s) - 1) ELSE s

urlToNestedPathKeepsSearch(url, filename) ==
  IF url.parses
    THEN StripWww(url.hostname) \o <<"/">> \o StripSlashes(url.pathname)
         \o url.search \o <<"/">> \o filename
    ELSE Sanitize(url.text) \o <<"/">> \o filename

\* urlToNestedPath (lines 482-492)
urlToNestedPath(url, filename) ==
  IF url.parses
    THEN LET host == StripWww(url.hostname)
             pathPart == StripSlashes(url.pathname)
         IN  IF pathPart = <<>> THEN host \o <<"/">> \o filename
             ELSE host \o <<"/">> \o pathPart \o <<"/">> \o filename
    ELSE Sanitize(url.text) \o <<"/">> \o filename

\* path.normalize on the paths that occur here, which have no "." or ".."
\* segment: a run of slashes becomes one slash.
RECURSIVE CollapseSlashes(_)
CollapseSlashes(s) ==
  IF Len(s) < 2 THEN s
  ELSE IF s[1] = "/" /\ s[2] = "/" THEN CollapseSlashes(Tail(s))
  ELSE <<Head(s)>> \o CollapseSlashes(Tail(s))

\* path.join(a, b)
PathJoin(a, b) ==
  IF b = <<>> THEN a ELSE CollapseSlashes(a \o <<"/">> \o b)

\* const baseDir = '.firecrawl' (line 754); the name is one unit of the
\* path, nothing looks inside it.
baseDir == <<".firecrawl">>

\* const dir (lines 789-790)
DirOf(url) == PathJoin(baseDir, StripTrailingSlash(urlToNestedPath(url, <<>>)))

\* fs.existsSync(dir) (line 791)
existsSync(dir) == \E m \in made : m.dir = dir

\* ---- what is saved (lines 795-860)
\* result.data as the loop looks at it: which fields are truthy (markdown,
\* html, rawHtml, summary, screenshot) or arrays (links, images).
PageFields == {"markdown", "html", "rawHtml", "links", "images", "summary",
               "screenshot"}

FullPage == [f \in PageFields |-> TRUE]

Without(page, fields) == [f \in PageFields |-> page[f] /\ f \notin fields]

File(name, content) == [name |-> name, content |-> content]

HtmlOfRawFirst(page) ==
  IF page["rawHtml"] THEN {"rawHtml"} ELSE IF page["html"] THEN {"html"} ELSE {}

\* result.data?.html || result.data?.rawHtml  (line 818)
HtmlOf(page) ==
  IF page["html"] THEN {"html"} ELSE IF page["rawHtml"] THEN {"rawHtml"} ELSE {}

\* One turn of the loop for a format other than screenshot (lines 812-859):
\* the file written, if any.
FileOf(fmt, page) ==
  CASE fmt = "markdown" ->
         IF page["markdown"] THEN {File("index.md", "markdown")} ELSE {}
    [] fmt \in {"html", "rawHtml"} ->
         IF HtmlOf(page) # {} THEN {File("index.html", Val(HtmlOf(page)))} ELSE {}
    [] fmt = "links" ->
         IF page["links"] THEN {File("links.txt", "links")} ELSE {}
    [] fmt = "images" ->
         IF page["images"] THEN {File("images.txt", "images")} ELSE {}
    [] fmt = "summary" ->
         IF page["summary"] THEN {File("summary.md", "summary")} ELSE {}
    [] OTHER -> {File("index.json", "data")}

\* The loop over the formats from position at on (lines 797-860), up to
\* its end or to the await of a screenshot download: the files written, in
\* order, after those in acc, and the position of the format that awaits
\* (0 when the loop has ended).
RECURSIVE WriteFrom(_, _, _, _)
WriteFrom(fmts, at, page, acc) ==
  IF at > Len(fmts) THEN [written |-> acc, at |-> 0]
  ELSE IF fmts[at] = "screenshot"
    THEN IF page["screenshot"] THEN [written |-> acc, at |-> at]
         ELSE WriteFrom(fmts, at + 1, page, acc)
  ELSE LET f == FileOf(fmts[at], page)
       IN  WriteFrom(fmts, at + 1, page,
                     IF f = {} THEN acc ELSE Append(acc, Val(f)))

\* The writeFileSync calls of the task of urls[idx] for the files in written
Writes(idx, written) ==
  LET dir == DirOf(urls[idx])
  IN  { [idx |-> idx, dir |-> dir, name |-> written[k].name,
         content |-> written[k].content] : k \in DOMAIN written }

\* if (!fs.existsSync(dir)) fs.mkdirSync(dir, {recursive: true})
\* (lines 791-793)
Mkdir(idx) ==
  LET dir == DirOf(urls[idx])
  IN  IF existsSync(dir) THEN made ELSE made \cup {[idx |-> idx, dir |-> dir]}

SavedLine(n, idx, saved) ==
  [kind |-> "Saved", n |-> n, total |-> total, idx |-> idx, files |-> saved]

\* A thrown value: an Error with a message and possibly a status, or a
\* thrown string (isError FALSE), whose text is then the message.
ErrorValue(message, httpStatus) ==
  [isError |-> TRUE, message |-> message, status |-> httpStatus]

ThrownString(text) == [isError |-> FALSE, message |-> text, status |-> Undef]

\* An error of the network layer, as the API client throws it.
TransportError ==
  ErrorValue(<<"f", "e", "t", "c", "h", " ", "f", "a", "i", "l", "e", "d">>, Undef)

\* ---- the scrape call (lines 288-371, 765-777)
\* What app.scrape settles with (line 354): it resolves with the document,
\* or rejects with what the client threw, a failure the API reported or an
\* error of the transport.
Resolves(page) == [resolved |-> TRUE, data |-> {page}, thrown |-> Undef]

Rejects(error) == [resolved |-> FALSE, data |-> Undef, thrown |-> {error}]

UnknownError ==
  <<"U", "n", "k", "n", "o", "w", "n", " ", "e", "r", "r", "o", "r", " ",
    "o", "c", "c", "u", "r", "r", "e", "d">>

executeScrapeTrustsStrings(settled) ==
  IF settled.resolved \/ ~Val(settled.thrown).isError
    THEN [success |-> TRUE, data |-> IF settled.resolved THEN settled.data ELSE {FullPage},
          error |-> Undef]
    ELSE [success |-> FALSE, data |-> Undef, error |-> {Val(settled.thrown).message}]

\* executeScrape from the await of app.scrape on (lines 353-370): the try
\* returns {success: true, data}, the catch {success: false, error} with
\* the message of an Error and 'Unknown error occurred' for anything else.
executeScrape(settled) ==
  IF settled.resolved
    THEN [success |-> TRUE, data |-> settled.data, error |-> Undef]
    ELSE [success |-> FALSE, data |-> Undef,
          error |-> {IF Val(settled.thrown).isError
                       THEN Val(settled.thrown).message ELSE UnknownError}]

\* The Error line of a URL (lines 773-775)
ErrorProgressLine(n, idx, error) ==
  [kind |-> "Error", n |-> n, total |-> total, idx |-> idx, error |-> error]

ScrapeFailsUncounted(w) ==
  /\ pc = "exec"
  /\ UNCHANGED browserVars
  /\ workers[w].pc = "scraping"
  /\ completedCount' = completedCount + 1
  /\ stderr' = Append(stderr, ProgressLine("Error", completedCount', workers[w].idx))
  /\ Continue(w, workers)
  /\ UNCHANGED <<pc, exitCode, errorCount, setupVars, diskVars>>

ScrapeFailsRetries(w) ==
  /\ pc = "exec"
  /\ UNCHANGED browserVars
  /\ workers[w].pc = "scraping"
  /\ completedCount' = completedCount + 1
  /\ errorCount' = errorCount + 1
  /\ stderr' = Append(stderr, ProgressLine("Error", completedCount', workers[w].idx))
  /\ attempts' = [attempts EXCEPT ![workers[w].idx] = @ + 1]
  /\ UNCHANGED <<pc, exitCode, setupVars, diskVars, urlIndex, workers>>

\* processUrl after executeScrape resolved with success:false and error
\* (lines 769-777).
ReportError(w, error) ==
  /\ pc = "exec"
  /\ UNCHANGED browserVars
  /\ workers[w].pc = "scraping"
  /\ completedCount' = completedCount + 1
  /\ errorCount' = errorCount + 1
  /\ stderr' = Append(stderr, ErrorProgressLine(completedCount', workers[w].idx, error))
  /\ Continue(w, workers)
  /\ UNCHANGED <<pc, exitCode, setupVars, scraped, made, files, tasks>>

\* processUrl after executeScrape resolved with success:true and data page
\* (lines 769-864).  The files are written up to the await of the screenshot
\* download, or all of them when there is none.
SaveResult(w, page) ==
  /\ pc = "exec"
  /\ UNCHANGED browserVars
  /\ workers[w].pc = "scraping"
  /\ completedCount' = completedCount + 1
  /\ LET idx == workers[w].idx
         run == WriteFrom(EffectiveFormats, 1, page, <<>>)
     IN  /\ scraped' = scraped \cup {[idx |-> idx, page |-> page]}
         /\ made' = Mkdir(idx)
         /\ files' = files \cup Writes(idx, run.written)
         /\ IF run.at # 0
              THEN /\ workers' = [workers EXCEPT ![w].pc = "fetching"]
                   /\ tasks' = tasks \cup {[w |-> w, page |-> page, at |-> run.at,
                                           saved |-> Len(run.written)]}
                   /\ UNCHANGED <<stderr, urlIndex, attempts>>
              ELSE /\ stderr' = Append(stderr,
                                       SavedLine(completedCount', idx, Len(run.written)))
                   /\ Continue(w, workers)
                   /\ UNCHANGED tasks
  /\ UNCHANGED <<pc, exitCode, errorCount, setupVars>>

\* The scrape call of worker w settles with settled: executeScrape returns
\* and processUrl goes on with its result (lines 353-370, 767-864).
ScrapeSettles(w, settled) ==
  /\ pc = "exec"
  /\ workers[w].pc = "scraping"
  /\ answers' = answers \cup {[idx |-> workers[w].idx, settled |-> settled]}
  /\ LET returned == executeScrape(settled)
     IN  IF returned.success
           THEN SaveResult(w, Val(returned.data))
           ELSE ReportError(w, Val(returned.error))

\* The scrape call fails (lines 361-369, 771-777).
ScrapeFails(w) == ScrapeSettles(w, Rejects(TransportError))

\* The scrape call succeeds with the document page (lines 354-360, 779-864).
ScrapeSucceeds(w, page) == ScrapeSettles(w, Resolves(page))

\* executeScrape resolves with success:true and mkdirSync or a writeFileSync
\* throws (lines 767-860): nothing catches it.  The calls before the one
\* that throws have had their effect.
ScrapeSucceedsWriteThrows(w, page) ==
  /\ pc = "exec"
  /\ UNCHANGED browserVars
  /\ workers[w].pc = "scraping"
  /\ completedCount' = completedCount + 1
  /\ LET idx == workers[w].idx
         run == WriteFrom(EffectiveFormats, 1, page, <<>>)
     IN  \/ /\ ~existsSync(DirOf(urls[idx]))
            /\ UNCHANGED <<made, files>>
         \/ \E k \in DOMAIN run.written :
              /\ made' = Mkdir(idx)
              /\ files' = files \cup Writes(idx, SubSeq(run.written, 1, k - 1))
  /\ scraped' = scraped \cup {[idx |-> workers[w].idx, page |-> page]}
  /\ answers' = answers \cup {[idx |-> workers[w].idx, settled |-> Resolves(page)]}
  /\ Reject(w)
  /\ UNCHANGED <<errorCount, urlIndex, attempts, setupVars, tasks>>

\* The suspended task of worker w
TaskOf(w) == CHOOSE t \in tasks : t.w = w

\* How a screenshot download can end: response.ok, a response that is not
\* ok, fetch throws (lines 801-810).
FetchOutcomes == {"ok", "notOk", "throws"}

\* The file of the screenshot, written when response.ok (lines 802-807)
ShotSaved(outcome) ==
  IF outcome = "ok" THEN <<File("screenshot.png", "screenshot")>> ELSE <<>>

FetchReturnsFailsTask(w, outcome) ==
  /\ pc = "exec"
  /\ UNCHANGED browserVars
  /\ workers[w].pc = "fetching"
  /\ LET task == TaskOf(w)
         idx == workers[w].idx
         run == WriteFrom(EffectiveFormats, task.at + 1, task.page, ShotSaved(outcome))
         saved == task.saved + Len(run.written)
     IN  IF outcome # "ok"
           THEN /\ tasks' = tasks \ {task}
                /\ errorCount' = errorCount + 1
                /\ stderr' = Append(stderr, ProgressLine("Error", completedCount, idx))
                /\ Continue(w, workers)
                /\ UNCHANGED files
           ELSE /\ files' = files \cup Writes(idx, run.written)
                /\ UNCHANGED errorCount
                /\ IF run.at # 0
                     THEN /\ tasks' = (tasks \ {task})
                                        \cup {[task EXCEPT !.at = run.at, !.saved = saved]}
                          /\ UNCHANGED <<stderr, workers, urlIndex, attempts>>
                     ELSE /\ tasks' = tasks \ {task}
                          /\ stderr' = Append(stderr, SavedLine(completedCount, idx, saved))
                          /\ Continue(w, workers)
  /\ UNCHANGED <<pc, exitCode, completedCount, setupVars, scraped, made, answers>>

\* The screenshot download ends (lines 801-811) and the loop goes on to its
\* end (lines 812-864) or to the next download.
FetchReturns(w, outcome) ==
  /\ pc = "exec"
  /\ UNCHANGED browserVars
  /\ workers[w].pc = "fetching"
  /\ LET task == TaskOf(w)
         idx == workers[w].idx
         run == WriteFrom(EffectiveFormats, task.at + 1, task.page, ShotSaved(outcome))
         saved == task.saved + Len(run.written)
     IN  /\ files' = files \cup Writes(idx, run.written)
         /\ IF run.at # 0
              THEN /\ tasks' = (tasks \ {task})
                                 \cup {[task EXCEPT !.at = run.at, !.saved = saved]}
                   /\ UNCHANGED <<stderr, workers, urlIndex, attempts>>
              ELSE /\ tasks' = tasks \ {task}
                   /\ stderr' = Append(stderr, SavedLine(completedCount, idx, saved))
                   /\ Continue(w, workers)
  /\ UNCHANGED <<pc, exitCode, completedCount, errorCount, setupVars, scraped, made,
                 answers>>

\* The screenshot download ends and a writeFileSync of a later format throws
\* (lines 812-860).  The write of screenshot.png is inside the try of line
\* 800: when it throws, the catch of line 808 swallows it and the task goes
\* on as in FetchReturns(w, "throws").
FetchReturnsWriteThrows(w, outcome) ==
  /\ pc = "exec"
  /\ UNCHANGED browserVars
  /\ workers[w].pc = "fetching"
  /\ LET task == TaskOf(w)
         idx == workers[w].idx
         shot == ShotSaved(outcome)
         run == WriteFrom(EffectiveFormats, task.at + 1, task.page, shot)
     IN  \E k \in DOMAIN run.written :
           /\ k > Len(shot)
           /\ files' = files \cup Writes(idx, SubSeq(run.written, 1, k - 1))
  /\ Reject(w)
  /\ UNCHANGED <<completedCount, errorCount, urlIndex, attempts, setupVars, scraped,
                 made, tasks, answers>>

AnyWorkerDone == \E w \in DOMAIN workers : workers[w].pc = "done"

NoWorkerScraping == \A w \in DOMAIN workers : workers[w].pc # "scraping"

\* await Promise.all(workers)  (line 879)
AllWorkersDone == \A w \in DOMAIN workers : workers[w].pc = "done"

\* Promise.all(workers) resolves (lines 879-891).
Summary ==
  /\ pc = "exec"
  /\ UNCHANGED browserVars
  /\ AllWorkersDone
  /\ stderr' = Append(stderr, [kind |-> "Completed", ok |-> completedCount - errorCount,
                               total |-> total, failed |-> errorCount])
  /\ IF errorCount = total
       THEN /\ pc' = "exited"
            /\ exitCode' = {1}
       ELSE /\ pc' = "returned"
            /\ exitCode' = {0}
  /\ UNCHANGED <<setupVars, urlIndex, completedCount, errorCount, workers, attempts,
                 diskVars>>

\* ------------------------------------------------------- specifications
\* =================================================== browser commands
\* ------------------------------------------------------- string helpers
\* String.prototype.includes
Includes(s, p) ==
  \E i \in 0..(Len(s) - Len(p)) : \A k \in DOMAIN p : s[i + k] = p[k]

\* The position of the first sep in s, or 0
IndexOf(s, sep) ==
  IF \E i \in DOMAIN s : s[i] = sep
    THEN CHOOSE i \in DOMAIN s : s[i] = sep /\ \A j \in 1..(i - 1) : s[j] # sep
    ELSE 0

\* String.prototype.split(sep) for a one-character separator
RECURSIVE Split(_, _)
Split(s, sep) ==
  LET i == IndexOf(s, sep)
  IN  IF i = 0
        THEN <<s>>
        ELSE <<SubSeq(s, 1, i - 1)>> \o Split(SubSeq(s, i + 1, Len(s)), sep)

\* Array.prototype.join(sep)
RECURSIVE Join(_, _)
Join(parts, sep) ==
  IF parts = <<>> THEN <<>>
  ELSE IF Len(parts) = 1 THEN parts[1]
  ELSE parts[1] \o sep \o Join(Tail(parts), sep)

\* Array.prototype.splice(idx, 0, ...items): the array after the insertion
Splice(parts, idx, items) ==
  SubSeq(parts, 1, idx) \o items \o SubSeq(parts, idx + 1, Len(parts))

\* The string literals of browser.ts and index.ts, character by character.
AgentBrowser ==
  <<"a", "g", "e", "n", "t", "-", "b", "r", "o", "w", "s", "e", "r">>
CdpFlag == <<"-", "-", "c", "d", "p">>
Space == <<" ">>
Quote == <<"'">>
Destroyed == <<"d", "e", "s", "t", "r", "o", "y", "e", "d">>
Expired == <<"e", "x", "p", "i", "r", "e", "d">>
NotFound == <<"n", "o", "t", " ", "f", "o", "u", "n", "d">>
Gone == <<"g", "o", "n", "e">>
SessionWord == <<"s", "e", "s", "s", "i", "o", "n">>
Closed == <<"c", "l", "o", "s", "e", "d">>
NoActiveSessionMessage ==
  <<"N", "o", " ", "a", "c", "t", "i", "v", "e", " ", "b", "r", "o", "w",
    "s", "e", "r", " ", "s", "e", "s", "s", "i", "o", "n", ".", " ", "L",
    "a", "u", "n", "c", "h", " ", "o", "n", "e", " ", "w", "i", "t", "h",
    ":", " ", "f", "i", "r", "e", "c", "r", "a", "w", "l", " ", "b", "r",
    "o", "w", "s", "e", "r", " ", "l", "a", "u", "n", "c", "h", "\n", "O",
    "r", " ", "s", "p", "e", "c", "i", "f", "y", " ", "a", " ", "s", "e",
    "s", "s", "i", "o", "n", " ", "I", "D", " ", "w", "i", "t", "h", ":",
    " ", "-", "-", "s", "e", "s", "s", "i", "o", "n", " ", "<", "i", "d",
    ">">>

\* ----------------------------------------------------- the session store
\* A StoredBrowserSession.  The CDP URL of a session is a string that names
\* it; createdAt is the time of the launch.
CdpUrl(id) == <<"w", "s", "s", ":", "/", "/", ToString(id)>>

StoredBrowserSessionNoUrl(id, cdpUrl, createdAt) ==
  [id |-> id, cdpUrl |-> <<>>, createdAt |-> createdAt]

StoredBrowserSession(id, cdpUrl, createdAt) ==
  [id |-> id, cdpUrl |-> cdpUrl, createdAt |-> createdAt]

saveBrowserSessionKeepsOld(st, session) == st \cup {session}

\* saveBrowserSession: writeFileSync replaces the content of the one file
\* (browser-session.ts:58-62).  The value is the store afterwards.
saveBrowserSession(st, session) == {session}

loadBrowserSessionMissing(st) == Undef

\* loadBrowserSession: the stored record, or null (the empty set) when the
\* file does not exist (browser-session.ts:67-78).
loadBrowserSession(st) == IF st = {} THEN Undef ELSE {CHOOSE r \in st : TRUE}

clearBrowserSessionNever(st) == st

\* clearBrowserSession: unlinkSync of the file (browser-session.ts:83-92).
clearBrowserSession(st) == {}

getSessionIdPrefersStore(overrideId, st) ==
  IF loadBrowserSession(st) # Undef
    THEN [threw |-> FALSE, id |-> {Val(loadBrowserSession(st)).id}, error |-> Undef]
    ELSE IF overrideId # Undef
      THEN [threw |-> FALSE, id |-> overrideId, error |-> Undef]
      ELSE [threw |-> TRUE, id |-> Undef,
            error |-> {ErrorValue(NoActiveSessionMessage, Undef)}]

\* getSessionId (browser-session.ts:97-107): what it returns, or the error
\* it throws.
getSessionId(overrideId, st) ==
  IF overrideId # Undef
    THEN [threw |-> FALSE, id |-> overrideId, error |-> Undef]
    ELSE LET stored == loadBrowserSession(st)
         IN  IF stored # Undef
               THEN [threw |-> FALSE, id |-> {Val(stored).id}, error |-> Undef]
               ELSE [threw |-> TRUE, id |-> Undef,
                     error |-> {ErrorValue(NoActiveSessionMessage, Undef)}]

\* ------------------------------------------------ session-expiry detection
\* /session.*closed/ : "session", then characters other than a line break,
\* then "closed".
SessionThenClosed(msg) ==
  \E i \in 1..(Len(msg) - Len(SessionWord) + 1) :
    /\ SubSeq(msg, i, i + Len(SessionWord) - 1) = SessionWord
    /\ \E j \in (i + Len(SessionWord))..(Len(msg) - Len(Closed) + 1) :
         /\ SubSeq(msg, j, j + Len(Closed) - 1) = Closed
         /\ \A k \in (i + Len(SessionWord))..(j - 1) : msg[k] # "\n"

\* /destroyed|expired|not found|gone|session.*closed/i.test(msg)
ExpiredPattern(msg) ==
  LET m == ToLowerCase(msg)
  IN  \/ Includes(m, Destroyed)
      \/ Includes(m, Expired)
      \/ Includes(m, NotFound)
      \/ Includes(m, Gone)
      \/ SessionThenClosed(m)

isSessionExpiredErrorStatusOnly(error) == error.status \in {{410}, {404}}

\* isSessionExpiredError (browser.ts:153-161)
isSessionExpiredError(error) ==
  LET msg == ToLowerCase(error.message)
  IN  IF error.status = {410} \/ error.status = {404}
        THEN TRUE
        ELSE ExpiredPattern(msg)

\* ------------------------------------------- the execute command line
\* index.ts:766-768
flagCount(a) ==
  (IF a.python THEN 1 ELSE 0) + (IF a.node THEN 1 ELSE 0) + (IF a.bash THEN 1 ELSE 0)

\* index.ts:775-779
languageOf(a) == IF a.python THEN "python" ELSE IF a.node THEN "node" ELSE "bash"

finalCodeAlwaysPrefixed(a) == AgentBrowser \o Space \o a.code

\* index.ts:782-789
finalCode(a) ==
  IF languageOf(a) = "bash" /\ ~a.bash /\ ~StartsWith(a.code, AgentBrowser)
    THEN AgentBrowser \o Space \o a.code
    ELSE a.code

finalCommandAppendsFlag(command, cdpUrl) ==
  IF StartsWith(command, AgentBrowser) /\ ~Includes(command, CdpFlag)
    THEN command \o Space \o CdpFlag \o Space \o Quote \o cdpUrl \o Quote
    ELSE command

\* The command executeBashLocally hands to sh -c (browser.ts:116-123).
finalCommand(command, cdpUrl) ==
  IF StartsWith(command, AgentBrowser) /\ ~Includes(command, CdpFlag)
    THEN LET parts == Split(command, " ")
             insertIdx == Min(2, Len(parts))
         IN  Join(Splice(parts, insertIdx, <<CdpFlag, Quote \o cdpUrl \o Quote>>),
                  Space)
    ELSE command

\* ------------------------------------------------- the browser commands
\* Ids the remote API can give to a session, and ids a user can type.
SessionIds == 1..MaxSessions

\* What a command writes.  stream is where it goes: "stderr", "stdout", or
\* "output" for writeOutput.
Message(stream, kind, detail) == [stream |-> stream, kind |-> kind, detail |-> detail]

ErrorLine(detail) == Message("stderr", "Error", detail)

\* The next state of the running command and of the session file.
Becomes(p, c, o, x, t, st) ==
  /\ bpc' = p
  /\ bcalls' = c
  /\ bout' = o
  /\ bexit' = x
  /\ thrown' = t
  /\ store' = st

\* process.exit(code) after the lines in out, the store being st by then.
ExitsWith(code, out, st) == Becomes("idle", bcalls, bout \o out, {code}, thrown, st)

\* The handler returns and the process ends normally.
Returns(out, st) == ExitsWith(0, out, st)

CatchClearsStore(error) ==
  Becomes("idle", bcalls, Append(bout, ErrorLine({error})), {1}, {error},
          clearBrowserSession(store))

\* The catch blocks of launch, list, close and of the bash branch
\* (browser.ts:97-103, 235-241, 338-344, 376-382).
Catch(error) ==
  Becomes("idle", bcalls, Append(bout, ErrorLine({error})), {1}, {error}, store)

\* A command starts: a new process, nothing written yet.
Starts(o, a) ==
  /\ bpc = "idle"
  /\ clock < MaxCommands
  /\ clock' = clock + 1
  /\ options' = o
  /\ argv' = a
  /\ result' = Undef
  /\ UNCHANGED issued
  /\ UNCHANGED scrapeVars

\* An awaited call of the running command settles.
Settles ==
  /\ UNCHANGED <<clock, options, argv>>
  /\ UNCHANGED scrapeVars

\* An awaited remote call settles.
RemoteSettles ==
  /\ Settles
  /\ UNCHANGED result

\* ---- launch-session (index.ts:688-698, browser.ts:55-104)
LaunchCommand ==
  /\ Starts({[command |-> "launch"]}, Undef)
  /\ Becomes("launch", <<[api |-> "browser"]>>, <<>>, {}, {}, store)

LaunchReturns ==
  /\ bpc = "launch"
  /\ RemoteSettles
  /\ \/ \E id \in SessionIds \ issued :
          /\ issued' = issued \cup {id}
          /\ Returns(<<Message("output", "SessionInfo", {id})>>,
                     saveBrowserSession(store,
                       StoredBrowserSession(id, CdpUrl(id), clock)))
     \/ /\ ExitsWith(1, <<ErrorLine(Undef)>>, store)
        /\ UNCHANGED issued
     \/ /\ Catch(TransportError)
        /\ UNCHANGED issued

ExecuteCatchAlwaysClears(error, o, callsSoFar) ==
  Becomes("idle", callsSoFar, <<ErrorLine({error})>>, {1}, {error},
          IF loadBrowserSession(store) # Undef /\ o.session = Undef
            THEN clearBrowserSession(store)
            ELSE store)

\* ---- execute (index.ts:765-800, browser.ts:166-295)
\* The catch block of the python/node branch (browser.ts:273-294), entered
\* after the calls in callsSoFar.
ExecuteCatch(error, o, callsSoFar) ==
  LET stored == loadBrowserSession(store)
  IN  IF isSessionExpiredError(error)
        THEN LET sessionId == IF o.session # Undef THEN o.session
                              ELSE IF stored # Undef THEN {Val(stored).id}
                              ELSE Undef
             IN  Becomes("idle", callsSoFar,
                         <<Message("stderr", "Expired", sessionId)>>,
                         {1}, {error},
                         IF stored # Undef /\ o.session = Undef
                           THEN clearBrowserSession(store)
                           ELSE store)
        ELSE Becomes("idle", callsSoFar, <<ErrorLine({error})>>, {1}, {error},
                     store)

SpawnWithOrWithoutSession(session, o, callsSoFar) ==
  LET cdpUrl == IF session = Undef THEN <<>> ELSE Val(session).cdpUrl
  IN  Becomes("spawn",
              Append(callsSoFar,
                     [api |-> "spawn",
                      command |-> finalCommand(o.code, cdpUrl),
                      CDP_URL |-> cdpUrl,
                      SESSION_ID |-> IF session = Undef THEN 0 ELSE Val(session).id]),
              <<>>, {}, {}, store)

\* executeBashLocally spawns sh -c with the session in the environment
\* (browser.ts:125-132); without a session the command fails
\* (browser.ts:202-208).
SpawnWith(session, o, callsSoFar) ==
  IF session = Undef
    THEN Becomes("idle", callsSoFar,
                 <<ErrorLine({ErrorValue(NoActiveSessionMessage, Undef)})>>,
                 {1}, {}, store)
    ELSE Becomes("spawn",
                 Append(callsSoFar,
                        [api |-> "spawn",
                         command |-> finalCommand(o.code, Val(session).cdpUrl),
                         CDP_URL |-> Val(session).cdpUrl,
                         SESSION_ID |-> Val(session).id]),
                 <<>>, {}, {}, store)

UsesStoredAlways(stored, session) == TRUE

\* stored && stored.id === options.session (browser.ts:176)
UsesStored(stored, session) == stored # Undef /\ Val(stored).id = Val(session)

\* handleBrowserExecute up to its first await (browser.ts:166-210, 246-253).
handleBrowserExecute(o) ==
  IF o.language = "bash"
    THEN LET stored == loadBrowserSession(store)
         IN  IF o.session # Undef
               THEN IF UsesStored(stored, o.session)
                      THEN SpawnWith(stored, o, <<>>)
                      ELSE Becomes("list", <<[api |-> "listBrowsers"]>>, <<>>,
                                   {}, {}, store)
               ELSE SpawnWith(stored, o, <<>>)
    ELSE LET resolved == getSessionId(o.session, store)
         IN  IF resolved.threw
               THEN ExecuteCatch(Val(resolved.error), o, <<>>)
               ELSE Becomes("execute",
                            <<[api |-> "browserExecute",
                               sessionId |-> Val(resolved.id),
                               code |-> o.code,
                               language |-> o.language]>>,
                            <<>>, {}, {}, store)

\* The action of the execute subcommand (index.ts:765-800) on a command
\* line whose code is one of codes and whose --session is one of sessions.
ExecuteCommand(codes, sessions) ==
  /\ bpc = "idle"
  /\ clock < MaxCommands
  /\ \E code \in codes, python \in BOOLEAN, node \in BOOLEAN, bash \in BOOLEAN,
        session \in sessions, json \in BOOLEAN :
       LET a == [code |-> code, python |-> python, node |-> node, bash |-> bash,
                 session |-> session, json |-> json]
           o == [command |-> "execute", code |-> finalCode(a),
                 language |-> languageOf(a), session |-> session, json |-> json]
       IN  IF flagCount(a) > 1
             THEN /\ Starts(Undef, {a})
                  /\ Becomes("idle", <<>>, <<ErrorLine(Undef)>>, {1}, {}, store)
             ELSE /\ Starts({o}, {a})
                  /\ handleBrowserExecute(o)

\* app.listBrowsers settles in the bash branch (browser.ts:184-197): match
\* is what list.sessions?.find returns.
ListBrowsersReturns ==
  /\ bpc = "list"
  /\ RemoteSettles
  /\ UNCHANGED issued
  /\ LET o == Val(options)
         id == Val(o.session)
     IN  \/ \E match \in Opt({[id |-> id, cdpUrl |-> c] : c \in Opt({CdpUrl(id)})}) :
              IF match # Undef /\ Val(match).cdpUrl # Undef
                THEN SpawnWith({[id |-> id, cdpUrl |-> Val(Val(match).cdpUrl)]},
                               o, bcalls)
                ELSE ExitsWith(1, <<ErrorLine(o.session)>>, store)
         \/ Catch(TransportError)

\* What the child can print, and how it can end (null: killed by a signal).
ChildOutputs == {<<>>, <<"o", " ">>}

ChildExitCodes == Opt({0, 1})

ChildFailedQuietly(r) == r.exitCode # 0 /\ r.stderr = <<>>

\* result.exitCode !== 0 (browser.ts:212)
ChildFailed(r) == r.exitCode # 0

\* The child closes (browser.ts:144-146, 210-234).
ChildCloses ==
  /\ bpc = "spawn"
  /\ Settles
  /\ UNCHANGED issued
  /\ \E out \in ChildOutputs, err \in ChildOutputs, code \in ChildExitCodes :
       LET r == [stdout |-> out, stderr |-> err,
                 exitCode |-> IF code = Undef THEN 1 ELSE Val(code)]
       IN  /\ result' = {r}
           /\ IF ChildFailed(r)
                  THEN ExitsWith(1,
                         (IF r.stderr # <<>>
                            THEN <<Message("stderr", "Raw", r.stderr)>>
                            ELSE <<>>)
                         \o (IF r.stdout # <<>>
                               THEN <<Message("stdout", "Raw", r.stdout)>>
                               ELSE <<>>),
                         store)
                  ELSE IF Val(options).json
                    THEN Returns(<<Message("output", "Json",
                                     [success |-> TRUE,
                                      result |-> TrimEnd(r.stdout),
                                      exitCode |-> r.exitCode])>>, store)
                    ELSE Returns(IF r.stdout # <<>>
                                   THEN <<Message("output", "Result",
                                                  TrimEnd(r.stdout))>>
                                   ELSE <<>>, store)

\* app.browserExecute settles (browser.ts:250-294); a rejection is one of
\* errors.
BrowserExecuteReturns(errors) ==
  /\ bpc = "execute"
  /\ RemoteSettles
  /\ UNCHANGED issued
  /\ \/ ExitsWith(1, <<ErrorLine(Undef)>>, store)
     \/ \E value \in Opt({<<"r">>}), codeError \in BOOLEAN :
          Returns((IF codeError THEN <<Message("stderr", "CodeError", Undef)>>
                   ELSE <<>>)
                  \o (IF Val(options).json
                        THEN <<Message("output", "Json",
                                 [success |-> TRUE, result |-> value])>>
                        ELSE IF value # Undef /\ Val(value) # <<>>
                          THEN <<Message("output", "Result", Val(value))>>
                          ELSE <<>>),
                  store)
     \/ \E error \in errors : ExecuteCatch(error, Val(options), bcalls)

\* ---- list (index.ts:824-838, browser.ts:300-345)
ListCommand ==
  \E filter \in Opt({"active", "bogus"}) :
    IF filter # Undef /\ Val(filter) \notin {"active", "destroyed"}
      THEN /\ Starts(Undef, Undef)
           /\ Becomes("idle", <<>>, <<ErrorLine(filter)>>, {1}, {}, store)
      ELSE /\ Starts({[command |-> "list", status |-> filter]}, Undef)
           /\ Becomes("listing", <<[api |-> "listBrowsers"]>>, <<>>, {}, {}, store)

ListReturns ==
  /\ bpc = "listing"
  /\ RemoteSettles
  /\ UNCHANGED issued
  /\ \/ ExitsWith(1, <<ErrorLine(Undef)>>, store)
     \/ Returns(<<Message("output", "Sessions", Undef)>>, store)
     \/ Catch(TransportError)

\* ---- close (index.ts:862-870, browser.ts:350-383)
CloseCommand ==
  \E session \in Opt(SessionIds) :
    LET o == [command |-> "close", session |-> session]
        resolved == getSessionId(o.session, store)
    IN  /\ Starts({o}, Undef)
        /\ IF resolved.threw
             THEN Becomes("idle", <<>>, <<ErrorLine(resolved.error)>>, {1},
                          resolved.error, store)
             ELSE Becomes("close",
                          <<[api |-> "deleteBrowser", sessionId |-> Val(resolved.id)]>>,
                          <<>>, {}, {}, store)

CloseKeepsStore(stored, sessionId) == FALSE

\* stored && stored.id === sessionId (browser.ts:366)
CloseClearsStore(stored, sessionId) ==
  stored # Undef /\ Val(stored).id = sessionId

CloseReturns ==
  /\ bpc = "close"
  /\ RemoteSettles
  /\ UNCHANGED issued
  /\ LET sessionId == bcalls[1].sessionId
     IN  \/ ExitsWith(1, <<ErrorLine(Undef)>>, store)
         \/ Returns(<<Message("stdout", "Closed", {sessionId})>>,
                    IF CloseClearsStore(loadBrowserSession(store), sessionId)
                      THEN clearBrowserSession(store)
                      ELSE store)
         \/ Catch(TransportError)

\* ---- the shorthand: browser <code> (index.ts:616-626)
\* handleBrowserQuickExecute: with a stored session the code is executed
\* directly; without one a session is launched and persisted first.  The
\* code is run as the execute subcommand runs bash, with the tool name in
\* front.
QuickOptions(code, json) ==
  [command |-> "quick",
   code |-> finalCode([code |-> code, python |-> FALSE, node |-> FALSE,
                       bash |-> FALSE]),
   language |-> "bash", session |-> Undef, json |-> json]

QuickExecuteCommand(codes) ==
  /\ bpc = "idle"
  /\ clock < MaxCommands
  /\ \E code \in codes, json \in BOOLEAN :
       LET o == QuickOptions(code, json)
       IN  /\ Starts({o}, {[code |-> code, json |-> json]})
           /\ IF loadBrowserSession(store) # Undef
                THEN handleBrowserExecute(o)
                ELSE Becomes("quicklaunch", <<[api |-> "browser"]>>, <<>>, {},
                             {}, store)

\* The launch of the shorthand settles: the new session is persisted and
\* the code executed against it, or the command fails as launch-session
\* does.
QuickLaunchReturns ==
  /\ bpc = "quicklaunch"
  /\ RemoteSettles
  /\ \/ \E id \in SessionIds \ issued :
          LET saved == saveBrowserSession(store,
                         StoredBrowserSession(id, CdpUrl(id), clock))
              session == loadBrowserSession(saved)
              o == Val(options)
          IN  /\ issued' = issued \cup {id}
              /\ Becomes("spawn",
                         Append(bcalls,
                                [api |-> "spawn",
                                 command |-> finalCommand(o.code, Val(session).cdpUrl),
                                 CDP_URL |-> Val(session).cdpUrl,
                                 SESSION_ID |-> Val(session).id]),
                         <<>>, {}, {}, saved)
     \/ /\ ExitsWith(1, <<ErrorLine(Undef)>>, store)
        /\ UNCHANGED issued
     \/ /\ Catch(TransportError)
        /\ UNCHANGED issued

\* ---- inputs of the browser commands
\* Command lines for the runs that follow a session through its life.
FewCodes == { <<"l", "s">>, AgentBrowser \o Space \o <<"c">> }

\* Rejections of browserExecute for those runs.
FewErrors ==
  { ErrorValue(<<"S", "e", "s", "s", "i", "o", "n", " ">> \o Destroyed, Undef),
    ErrorValue(<<"I", "n", "v", "a", "l", "i", "d", " ", "c", "o", "d", "e">>, Undef),
    ErrorValue(<<"I", "n", "v", "a", "l", "i", "d", " ", "c", "o", "d", "e">>, {404}) }

\* The concatenation of a sequence of strings
RECURSIVE Flatten(_)
Flatten(ss) == IF ss = <<>> THEN <<>> ELSE Head(ss) \o Flatten(Tail(ss))

\* Every code made of at most MaxCodeChunks pieces: the tool name, a blank,
\* a word, the --cdp flag.
CodeChunks == { AgentBrowser, Space, <<"c">>, CdpFlag }

ManyCodes == { Flatten(cs) : cs \in SeqsUpTo(CodeChunks, MaxCodeChunks) }

\* Every error whose message is made of at most MaxMessageChunks pieces,
\* with or without an HTTP status.
MessageChunks ==
  { <<"S", "e", "s", "s", "i", "o", "n">>,
    <<"S", "e", "s", "s", "i", "o", "n", "\n">>,
    <<" ", "w", "a", "s", " ">>, Destroyed,
    <<"E", "X", "P", "i", "r", "e", "d">>, <<"n", "o", "t", " ">>,
    <<"f", "o", "u", "n", "d">>, <<"g", "o">>, <<"n", "e">>, Closed,
    <<"I", "n", "v", "a", "l", "i", "d", " ", "c", "o", "d", "e">> }

ManyMessages == { Flatten(cs) : cs \in SeqsUpTo(MessageChunks, MaxMessageChunks) }

ManyErrors ==
  { ErrorValue(m, s) : m \in ManyMessages, s \in Opt({200, 404, 410}) }
  \cup { ThrownString(m) : m \in ManyMessages }

\* ======================================================== specifications
\* The site the map call discovers, for the runs that go through execution.
Site == << Url(<<"/", "a">>), Url(<<"/", "b">>), Url(<<"/", "a", "b">>),
           Url(<<"/">>), BadUrl >>

\* In those runs a successful scrape returns every field and the screenshot
\* downloads; SpecSave varies both.  The screenshot is the last format of
\* those runs (line 785 appends it), so no write follows the download.
FewPages == { FullPage }

FewOutcomes == { "ok" }

MapFailures == { [success |-> FALSE, data |-> Undef], [success |-> TRUE, data |-> Undef] }

MapSuccess(ls) == [success |-> TRUE, data |-> {ls}]

\* No browser command has run.
NoBrowserCommand ==
  /\ store = {}
  /\ issued = {}
  /\ clock = 0
  /\ bpc = "idle"
  /\ options = Undef
  /\ argv = Undef
  /\ bcalls = <<>>
  /\ bout = <<>>
  /\ bexit = {}
  /\ thrown = {}
  /\ result = Undef

InitCommon ==
  /\ pc = "map"
  /\ exitCode = {}
  /\ stderr = <<>>
  /\ calls = {"map"}
  /\ links = <<>>
  /\ matched = <<>>
  /\ urls = <<>>
  /\ status = [credits |-> Undef, concurrencyMax |-> Undef]
  /\ maxConcurrency = 0
  /\ answer = Undef
  /\ total = 0
  /\ urlIndex = 0
  /\ completedCount = 0
  /\ errorCount = 0
  /\ workers = <<>>
  /\ attempts = <<>>
  /\ scraped = {}
  /\ made = {}
  /\ files = {}
  /\ tasks = {}
  /\ answers = {}

Init ==
  /\ InitCommon
  /\ NoBrowserCommand
  /\ yes \in BOOLEAN
  /\ isTTY \in BOOLEAN
  /\ limit = Undef
  /\ includePaths = Undef
  /\ excludePaths = Undef
  /\ formats = Undef
  /\ screenshot \in BOOLEAN
  /\ fullPageScreenshot = FALSE
  /\ onlyMainContent = Undef
  /\ mapResult \in MapFailures \cup {MapSuccess(Slice(Site, k)) : k \in 0..MaxUrls}

NextSetup ==
  \/ MapReturns
  \/ WizardReturns
  \/ StatusReturns
  \/ AskReturns
  \/ Confirm

NextExec ==
  \/ \E w \in DOMAIN workers : ScrapeFails(w)
  \/ \E w \in DOMAIN workers, page \in FewPages : ScrapeSucceeds(w, page)
  \/ \E w \in DOMAIN workers, page \in FewPages : ScrapeSucceedsWriteThrows(w, page)
  \/ \E w \in DOMAIN workers, outcome \in FewOutcomes : FetchReturns(w, outcome)
  \/ Summary

Next == NextSetup \/ NextExec

\* ---- the runs that look at what is saved
\* Pages the map call can discover, in the order it returns them: two that
\* differ in the scheme and the query string only, two that differ in the
\* scheme, the www prefix and the final slash only, the root, and a string
\* that does not parse.
SaveSite ==
  << Address("https:", <<"h">>, <<"/", "a">>, <<>>),
     Address("http:", <<"h">>, <<"/", "a">>, <<"?", "p">>),
     Address("https:", <<"h">>, <<"/", "b">>, <<>>),
     Address("http:", <<"w", "w", "w", ".", "h">>, <<"/", "b", "/">>, <<>>),
     Address("https:", <<"h">>, <<"/">>, <<>>),
     BadUrl >>

\* A run discovers a stretch of at most MaxPages of them.
SaveSites ==
  { SubSeq(SaveSite, i, j) : i \in DOMAIN SaveSite, j \in DOMAIN SaveSite }
  \ { ls \in { SubSeq(SaveSite, i, j) : i \in DOMAIN SaveSite, j \in DOMAIN SaveSite } :
        Len(ls) = 0 \/ Len(ls) > MaxPages }

\* The formats a caller asks for: every format the loop knows, an unknown
\* one, and a screenshot in the middle of the list.
SaveFormatLists ==
  { <<"html", "rawHtml", "markdown">>,
    <<"links", "images", "summary">>, <<"json", "branding">>,
    <<"markdown", "screenshot", "links">> }

\* What a successful scrape returns: every field, or some of them.
ManyPages ==
  { FullPage, Without(FullPage, {"html", "screenshot"}),
    Without(FullPage, {"markdown", "html", "rawHtml", "links"}) }

\* The account status in those runs: no credits reported, and no cap on the
\* concurrency or a cap of one.
SaveStatuses ==
  { [credits |-> Undef, concurrencyMax |-> c] : c \in Opt({1}) }

InitSave ==
  /\ InitCommon
  /\ NoBrowserCommand
  /\ yes = TRUE
  /\ isTTY = FALSE
  /\ limit = Undef
  /\ includePaths = Undef
  /\ excludePaths = Undef
  /\ formats \in Opt(SaveFormatLists)
  /\ screenshot \in BOOLEAN
  /\ fullPageScreenshot = FALSE
  /\ onlyMainContent = Undef
  /\ mapResult \in {MapSuccess(ls) : ls \in SaveSites}

NextSave ==
  \/ MapReturns
  \/ StatusReturnsFrom(SaveStatuses)
  \/ \E w \in DOMAIN workers : ScrapeFails(w)
  \/ \E w \in DOMAIN workers, page \in ManyPages : ScrapeSucceeds(w, page)
  \/ \E w \in DOMAIN workers, page \in ManyPages : ScrapeSucceedsWriteThrows(w, page)
  \/ \E w \in DOMAIN workers, outcome \in FetchOutcomes : FetchReturns(w, outcome)
  \/ \E w \in DOMAIN workers, outcome \in FetchOutcomes :
       FetchReturnsWriteThrows(w, outcome)
  \/ Summary

\* What a scrape call can settle with: a document, an error of the
\* transport, a failure the API reported as the client throws it (an Error
\* with the HTTP status), and a thrown value that is no Error.
ApiFailure ==
  ErrorValue(<<"P", "a", "y", "m", "e", "n", "t", " ", "r", "e", "q", "u", "i", "r", "e", "d">>,
             {402})

ManyAnswers ==
  {Resolves(page) : page \in FewPages}
    \cup {Rejects(error) : error \in {TransportError, ApiFailure,
                                       ThrownString(<<"t", "i", "m", "e", "o", "u", "t">>)}}

\* A run with --yes over the first URLs of the site, with the default
\* format.
InitCall ==
  /\ InitCommon
  /\ NoBrowserCommand
  /\ yes = TRUE
  /\ isTTY = FALSE
  /\ limit = Undef
  /\ includePaths = Undef
  /\ excludePaths = Undef
  /\ formats = Undef
  /\ screenshot = FALSE
  /\ fullPageScreenshot = FALSE
  /\ onlyMainContent = Undef
  /\ mapResult \in {MapSuccess(Slice(Site, k)) : k \in 1..MaxUrls}

NextCall ==
  \/ MapReturns
  \/ StatusReturnsFrom(SaveStatuses)
  \/ \E w \in DOMAIN workers, settled \in ManyAnswers : ScrapeSettles(w, settled)
  \/ \E w \in DOMAIN workers, page \in FewPages : ScrapeSucceedsWriteThrows(w, page)
  \/ Summary

\* The flags that decide which URLs a run scrapes: a limit that is absent,
\* negative, zero or positive, and path filters that keep some of the site,
\* all of it or nothing.
InitStart ==
  /\ InitCommon
  /\ NoBrowserCommand
  /\ yes \in BOOLEAN
  /\ isTTY \in BOOLEAN
  /\ limit \in Opt(-1..MaxLimit)
  /\ includePaths \in Opt({<< <<"/", "a">> >>, << <<"/", "c">> >>})
  /\ excludePaths \in Opt({<< <<"/", "a", "b">> >>})
  /\ formats = Undef
  /\ screenshot = FALSE
  /\ fullPageScreenshot = FALSE
  /\ onlyMainContent = Undef
  /\ mapResult \in {MapSuccess(Slice(Site, k)) : k \in 1..MaxUrls}

\* The account status in those runs: no credits reported or any number of
\* them, and a cap of one on the concurrency.
StartStatuses ==
  {[credits |-> c, concurrencyMax |-> {1}] : c \in Opt(0..MaxCredits)}

\* What the user types at the confirmation prompt in those runs.
StartAnswerChars == {"y", "0", "1", "3"}

NextStart ==
  \/ MapReturns
  \/ WizardReturns
  \/ StatusReturnsFrom(StartStatuses)
  \/ AskReturnsFrom(StartAnswerChars)
  \/ Confirm
  \/ \E w \in DOMAIN workers : ScrapeFails(w)
  \/ \E w \in DOMAIN workers, page \in FewPages : ScrapeSucceeds(w, page)
  \/ \E w \in DOMAIN workers, outcome \in FewOutcomes : FetchReturns(w, outcome)
  \/ Summary

\* Every combination of the caller's flags, on a small site.
InitFlags ==
  /\ InitCommon
  /\ NoBrowserCommand
  /\ yes \in BOOLEAN
  /\ isTTY \in BOOLEAN
  /\ limit \in Opt(0..MaxLimit)
  /\ includePaths \in Opt({<<>>, << <<"/", "a">> >>})
  /\ excludePaths \in Opt({<<>>, << <<"/", "b">> >>})
  /\ formats \in Opt(FormatLists)
  /\ screenshot \in BOOLEAN
  /\ fullPageScreenshot \in BOOLEAN
  /\ onlyMainContent \in Opt(BOOLEAN)
  /\ mapResult \in {MapSuccess(Slice(Site, k)) : k \in 1..2}

\* Every site of at most MaxUrls discovered URLs, under every pair of path
\* filters, without the other flags.
InitFilter ==
  /\ InitCommon
  /\ NoBrowserCommand
  /\ yes \in BOOLEAN
  /\ isTTY \in BOOLEAN
  /\ limit = Undef
  /\ includePaths \in Opt(PathLists)
  /\ excludePaths \in Opt(PathLists)
  /\ formats = Undef
  /\ screenshot = FALSE
  /\ fullPageScreenshot = FALSE
  /\ onlyMainContent = Undef
  /\ mapResult \in {MapSuccess(ls) : ls \in SeqsUpTo(UrlPool, MaxUrls)}

\* No scrape command runs.
NoScrapeCommand ==
  /\ InitCommon
  /\ yes = FALSE
  /\ isTTY = FALSE
  /\ limit = Undef
  /\ includePaths = Undef
  /\ excludePaths = Undef
  /\ formats = Undef
  /\ screenshot = FALSE
  /\ fullPageScreenshot = FALSE
  /\ onlyMainContent = Undef
  /\ mapResult = [success |-> FALSE, data |-> Undef]

\* The session file is absent, or holds the session of an earlier launch.
InitStore ==
  /\ store \in { {}, {StoredBrowserSession(1, CdpUrl(1), 0)} }
  /\ issued = {r.id : r \in store}
  /\ bpc = "idle"
  /\ options = Undef
  /\ argv = Undef
  /\ bcalls = <<>>
  /\ bout = <<>>
  /\ bexit = {}
  /\ thrown = {}
  /\ result = Undef

\* A user runs up to MaxCommands browser commands, one after the other.
InitBrowser ==
  /\ NoScrapeCommand
  /\ InitStore
  /\ clock = 0

\* A user runs one browser command.
InitOneCommand ==
  /\ NoScrapeCommand
  /\ InitStore
  /\ clock = MaxCommands - 1

NextBrowser ==
  \/ LaunchCommand
  \/ LaunchReturns
  \/ ExecuteCommand(FewCodes, Opt(SessionIds))
  \/ ListBrowsersReturns
  \/ ChildCloses
  \/ BrowserExecuteReturns(FewErrors)
  \/ ListCommand
  \/ ListReturns
  \/ CloseCommand
  \/ CloseReturns

\* One execute command with the stored session, over every command line.
NextExecuteLine ==
  \/ ExecuteCommand(ManyCodes, {Undef})
  \/ ChildCloses
  \/ BrowserExecuteReturns(FewErrors)

\* One execute command with the stored session, over every rejection of
\* browserExecute.
NextExecuteError ==
  \/ ExecuteCommand({<<"l", "s">>}, {Undef})
  \/ ChildCloses
  \/ BrowserExecuteReturns(ManyErrors)

\* A user runs up to MaxCommands commands among the shorthand, launch and
\* close.
NextQuick ==
  \/ QuickExecuteCommand(FewCodes)
  \/ QuickLaunchReturns
  \/ ChildCloses
  \/ LaunchCommand
  \/ LaunchReturns
  \/ CloseCommand
  \/ CloseReturns

\* The run up to the end of the filter phase.
NextMap == MapReturns

Spec == Init /\ [][Next]_vars

SpecFlags == InitFlags /\ [][NextMap]_vars

SpecFilter == InitFilter /\ [][NextMap]_vars

SpecBrowser == InitBrowser /\ [][NextBrowser]_vars

SpecExecuteLine == InitOneCommand /\ [][NextExecuteLine]_vars

SpecExecuteError == InitOneCommand /\ [][NextExecuteError]_vars

SpecSave == InitSave /\ [][NextSave]_vars

SpecCall == InitCall /\ [][NextCall]_vars

SpecStart == InitStart /\ [][NextStart]_vars

\* The scrape call of worker w returns (line 767): every way processUrl can
\* go on from there.
ScrapeReturns(w) ==
  /\ w \in DOMAIN workers
  /\ \/ ScrapeFails(w)
     \/ \E page \in ManyPages : ScrapeSucceeds(w, page)
     \/ \E page \in ManyPages : ScrapeSucceedsWriteThrows(w, page)

\* The screenshot download of worker w returns (line 801).
DownloadReturns(w) ==
  /\ w \in DOMAIN workers
  /\ \/ \E outcome \in FetchOutcomes : FetchReturns(w, outcome)
     \/ \E outcome \in FetchOutcomes : FetchReturnsWriteThrows(w, outcome)

\* The runs of SpecSave in which every call that was issued returns and the
\* continuation of Promise.all runs once it is resolved.
SpecSaveFair ==
  /\ SpecSave
  /\ \A w \in 1..MaxPages : WF_vars(ScrapeReturns(w)) /\ WF_vars(DownloadReturns(w))
  /\ WF_vars(MapReturns)
  /\ WF_vars(StatusReturnsFrom(SaveStatuses))
  /\ WF_vars(Summary)

SpecQuick == InitBrowser /\ [][NextQuick]_vars

\* ================================================================ claims
ProgressLines == SelectSeq(stderr, LAMBDA m : m.kind \in {"Error", "Saved"})

ExecutionStarted == pc \in {"exec", "returned", "rejected"} \/ (pc = "exited" /\ total > 0)

ExecutionEnded == ExecutionStarted /\ pc # "exec"

SummaryReached == stderr # <<>> /\ stderr[Len(stderr)].kind = "Completed"

InFlight == Cardinality({w \in DOMAIN workers : workers[w].pc \in {"scraping", "fetching"}})

\* The concurrency cap the account status reports; no cap when it reports none.
RemoteCap == IF status.concurrencyMax # Undef THEN Val(status.concurrencyMax) ELSE Len(urls)

\* C1 (as claimed): no URL of the list is ever scraped twice, and once the
\* execution phase is over every URL of the list was scraped exactly once, so
\* that exactly K scrape calls were issued.
C1_EveryUrlAttemptedOnce ==
  /\ \A i \in DOMAIN attempts : attempts[i] <= 1
  /\ ExecutionEnded =>
       /\ DOMAIN attempts = DOMAIN urls
       /\ \A i \in DOMAIN urls : attempts[i] = 1

\* C2: at every moment of the execution phase the number of scrape tasks in
\* flight is at most min(remote concurrency cap, number of URLs to scrape).
C2_InFlightBounded ==
  ExecutionStarted => InFlight <= Min(RemoteCap, Len(urls))

\* C2 witness: the cap is below the number of URLs, the pool is full, and a
\* worker has already come back for a URL beyond the first batch.
C2_Witness ==
  /\ pc = "exec"
  /\ status.concurrencyMax = {2}
  /\ Len(urls) = 3
  /\ InFlight = 2
  /\ urlIndex = 3

\* C3: a run that reaches the summary has completedCount = total and
\* errorCount <= total; it exits with 1 when every URL failed and with 0
\* otherwise.
C3_SummaryCounts ==
  SummaryReached =>
    /\ completedCount = total
    /\ errorCount <= total
    /\ (errorCount = total => exitCode = {1})
    /\ (errorCount # total => exitCode = {0})

\* C3 witness: a finished run of three URLs with one failure exits with 0.
C3_Witness ==
  /\ SummaryReached
  /\ total = 3
  /\ errorCount = 1
  /\ exitCode = {0}

\* C4 (as claimed): whatever fails in one URL's task, once the execution
\* phase is over every URL of the list has exactly one recorded outcome, a
\* Saved line or an Error line.
C4_EveryOutcomeRecordedOnce ==
  ExecutionEnded =>
    \A i \in DOMAIN urls :
      Cardinality({k \in DOMAIN ProgressLines : ProgressLines[k].idx = i}) = 1

\* C5: when the account status reports fewer remaining credits than there
\* are URLs to scrape, the run exits with 1, the message carries both numbers
\* and no scrape call is issued.
C5_NotEnoughCreditsIsFatal ==
  ("getStatus" \in calls /\ pc # "status"
     /\ status.credits # Undef /\ Len(urls) > Val(status.credits)) =>
    /\ pc = "exited"
    /\ exitCode = {1}
    /\ stderr[Len(stderr)] = [kind |-> "NotEnoughCredits", need |-> Len(urls),
                              have |-> Val(status.credits)]
    /\ "ask" \notin calls
    /\ total = 0
    /\ attempts = <<>>

\* C5 witness: three URLs against two remaining credits.
C5_Witness ==
  /\ pc = "exited"
  /\ Len(urls) = 3
  /\ status.credits = {2}
  /\ stderr[Len(stderr)].kind = "NotEnoughCredits"

\* An answer made of decimal digits only, and its value.
IsAllDigits(a) == a # <<>> /\ \A i \in DOMAIN a : IsDigit(a[i])

RECURSIVE DecimalValue(_)
DecimalValue(a) ==
  IF a = <<>> THEN 0
  ELSE 10 * DecimalValue(SubSeq(a, 1, Len(a) - 1)) + DigitValue(a[Len(a)])

FirstN(s, n) == [i \in 1..Min(n, Len(s)) |-> s[i]]

\* The execution phase works on the list it was started with, and a run that
\* reaches the summary has scraped every URL of it once.
ExecutionScrapesUrls ==
  /\ (pc = "exec" => urls' = urls)
  /\ (pc' = "exec" => total' = Len(urls') /\ DOMAIN attempts' = DOMAIN urls')
  /\ (SummaryReached' => \A i \in DOMAIN urls' : attempts'[i] = 1)

BeginsWithNumber(a) ==
  /\ a # <<>>
  /\ \/ IsDigit(a[1])
     \/ (a[1] \in {"-", "+"} /\ Len(a) >= 2 /\ IsDigit(a[2]))

NeitherYNorNumeric(a) == a \notin {<<"y">>, <<"Y">>} /\ ~BeginsWithNumber(a)

C8_MapFailureIsFatal ==
  (pc # "map" /\ (~mapResult.success \/ mapResult.data = Undef
                    \/ mapResult.data = {<<>>})) =>
    /\ pc = "exited"
    /\ exitCode # {}
    /\ exitCode # {0}
    /\ calls = {"map"}
    /\ total = 0
    /\ attempts = <<>>

\* C8 witness: the map call succeeded with an empty list and the run exited
\* with 1.
C8_Witness ==
  /\ pc = "exited"
  /\ mapResult = MapSuccess(<<>>)
  /\ exitCode = {1}

PathStartsWithSome(u, ps) ==
  u.parses /\ \E i \in DOMAIN ps : StartsWith(u.pathname, ps[i])

IsEmptyList(o) == o = Undef \/ o = {<<>>}

Survives(u) ==
  /\ IsEmptyList(includePaths) \/ PathStartsWithSome(u, Val(includePaths))
  /\ IsEmptyList(excludePaths) \/ ~PathStartsWithSome(u, Val(excludePaths))

\* C9: when the path filters come from flags, the URLs left after filtering
\* are the discovered URLs that (include is empty or the path starts with an
\* include prefix) and (exclude is empty or the path starts with no exclude
\* prefix), in map order.
C9_FlagFilterSurvivors ==
  (pc # "map" /\ "wizard" \notin calls) => matched = SelectSeq(links, Survives)

\* C9 witness: with an include and an exclude list, two of three discovered
\* URLs are left.
C9_Witness ==
  /\ pc = "status"
  /\ ~IsEmptyList(includePaths)
  /\ ~IsEmptyList(excludePaths)
  /\ Len(links) = 3
  /\ Len(matched) = 2

\* The caller supplied no explicit scraping flag: the format selection is
\* absent, empty or markdown alone, and screenshot, onlyMainContent, limit,
\* the path filters and the skip-confirmation flag are unset.
NoExplicitFlagsAsClaimed ==
  /\ formats \in {Undef, {<<>>}, {<<"markdown">>}}
  /\ ~screenshot
  /\ ~fullPageScreenshot
  /\ onlyMainContent # {TRUE}
  /\ limit = Undef
  /\ includePaths = Undef
  /\ excludePaths = Undef
  /\ ~yes

\* C10 (as claimed): the wizard is entered exactly when the process is
\* attached to a terminal and no explicit scraping flag was supplied;
\* otherwise the flag filters are applied.
C10_WizardIffNoExplicitFlags ==
  pc # "map" =>
    /\ "wizard" \in calls <=> (isTTY /\ NoExplicitFlagsAsClaimed)
    /\ "wizard" \notin calls => matched = SelectSeq(links, Survives)

\* ------------------------------------------------ browser session claims
\* The command that ran last, and how it ended.
Ended(command, code) ==
  /\ bpc = "idle"
  /\ options # Undef
  /\ Val(options).command = command
  /\ bexit = {code}

\* The id a successful launch printed.
LaunchedId == bout[1].detail

\* C11: the session store never holds more than one record, and once a
\* launch has succeeded, even after an earlier successful launch, resolving
\* the session id with no override gives the id of that last launch and no
\* other.
C11_SingleSlotStore ==
  /\ Cardinality(store) <= 1
  /\ Ended("launch", 0) =>
       /\ ~getSessionId(Undef, store).threw
       /\ getSessionId(Undef, store).id = LaunchedId
       /\ \A r \in store : {r.id} = LaunchedId

\* C11 witness: two launches succeeded, the first got id 2 and the second
\* id 1, and the store holds the second.
C11_Witness ==
  /\ Ended("launch", 0)
  /\ clock = 2
  /\ issued = {1, 2}
  /\ LaunchedId = {1}
  /\ \E r \in store : r.createdAt = 2

\* The running command is an execute in the given language.
Executes(languages) ==
  /\ options # Undef
  /\ Val(options).command = "execute"
  /\ Val(options).language \in languages

\* The message says "no active browser session", in any letter case.
SaysNoActiveSession(message) ==
  Includes(ToLowerCase(message),
           <<"n", "o", " ", "a", "c", "t", "i", "v", "e", " ", "b", "r", "o",
             "w", "s", "e", "r", " ", "s", "e", "s", "s", "i", "o", "n">>)

\* C12: getSessionId returns the override whenever one is given, whatever
\* the store holds; without an override it returns the id of the stored
\* record if there is one; without either it throws a "no active browser
\* session" error and returns no id.  The remote calls of close and of a
\* python or node execute carry the id so resolved.
C12_GetSessionId ==
  /\ \A overrideId \in Opt(SessionIds) :
       LET r == getSessionId(overrideId, store)
       IN  IF overrideId # Undef
             THEN ~r.threw /\ r.id = overrideId
             ELSE IF store # {}
               THEN ~r.threw /\ \E rec \in store : r.id = {rec.id}
               ELSE /\ r.threw
                    /\ r.id = Undef
                    /\ SaysNoActiveSession(Val(r.error).message)
  /\ bpc \in {"execute", "close"} =>
       /\ Len(bcalls) = 1
       /\ IF Val(options).session # Undef
            THEN {bcalls[1].sessionId} = Val(options).session
            ELSE \E rec \in store : bcalls[1].sessionId = rec.id

\* C12 witness: an execute with an override is in flight while the store
\* holds a different session.
C12_Witness ==
  /\ bpc = "execute"
  /\ Val(options).session = {2}
  /\ \E rec \in store : rec.id = 1

\* The id handleBrowserClose passed to deleteBrowser.
ClosedId == bcalls[1].sessionId

\* C13: handleBrowserClose calls deleteBrowser with the resolved id (the
\* explicit one, else the stored one), and when the call succeeds the store
\* is cleared if the closed id is the id of the stored record and is left
\* as it was otherwise.
C13_CloseClearsOnlyStored ==
  [][ (bpc = "close" /\ bexit' = {0}) =>
        /\ bcalls = <<[api |-> "deleteBrowser", sessionId |-> ClosedId]>>
        /\ bcalls' = bcalls
        /\ {ClosedId} = (IF Val(options).session # Undef
                           THEN Val(options).session
                           ELSE {rec.id : rec \in store})
        /\ IF \E rec \in store : rec.id = ClosedId
             THEN store' = {}
             ELSE store' = store ]_vars

\* C13 witness: a close of session 2 succeeded while the store holds
\* session 1, which is still there.
C13_Witness ==
  /\ Ended("close", 0)
  /\ ClosedId = 2
  /\ \E rec \in store : rec.id = 1

\* C14: when the browser() call of handleBrowserLaunch settles, the store
\* becomes the one record {id, cdpUrl, createdAt} of the new session,
\* whatever it held, if the call succeeded; and if the call returned
\* success:false or threw, the command exits with code 1 and the store is
\* as it was before the launch.
C14_LaunchWritesOnSuccessOnly ==
  [][ (bpc = "launch" /\ bpc' # "launch") =>
        IF issued' # issued
          THEN \E id \in issued' \ issued :
                 store' = {[id |-> id, cdpUrl |-> CdpUrl(id), createdAt |-> clock]}
          ELSE bexit' = {1} /\ store' = store ]_vars

\* C14 witness: a launch failed and the record of the earlier session is
\* still stored.
C14_Witness ==
  /\ Ended("launch", 1)
  /\ store # {}

RemoteApis == {"browser", "browserExecute", "listBrowsers", "deleteBrowser"}

\* The remote API calls the running command has made.
RemoteCalls == SelectSeq(bcalls, LAMBDA c : c.api \in RemoteApis)

\* A python or node execute that got a session id forwards the code as
\* typed to browserExecute, with that id.
ForwardsToRemote ==
  (Executes({"python", "node"}) /\ (bpc = "execute" \/ bexit = {0})) =>
    /\ Len(bcalls) = 1
    /\ bcalls[1].api = "browserExecute"
    /\ {bcalls[1].sessionId} = (IF Val(options).session # Undef
                                  THEN Val(options).session
                                  ELSE {rec.id : rec \in store})
    /\ bcalls[1].code = Val(argv).code
    /\ bcalls[1].language = Val(options).language

StandsAt(msg, w, i) ==
  /\ i + Len(w) - 1 <= Len(msg)
  /\ \A k \in DOMAIN w : ToLowerChar(msg[i + k - 1]) = w[k]

MatchesIgnoringCase(msg, w) == \E i \in DOMAIN msg : StandsAt(msg, w, i)

\* "session", and later on the same line "closed".
SessionClosedPhrase(msg) ==
  \E i \in DOMAIN msg :
    /\ StandsAt(msg, SessionWord, i)
    /\ \E j \in DOMAIN msg :
         /\ j >= i + Len(SessionWord)
         /\ StandsAt(msg, Closed, j)
         /\ \A k \in i..j : msg[k] # "\n"

ExpiredAsClaimed(error) ==
  \/ error.status \in {{410}, {404}}
  \/ \E w \in {Destroyed, Expired, NotFound, Gone} :
       MatchesIgnoringCase(error.message, w)
  \/ SessionClosedPhrase(error.message)

InvalidCode == <<"I", "n", "v", "a", "l", "i", "d", " ", "c", "o", "d", "e">>

SessionDestroyed == <<"S", "e", "s", "s", "i", "o", "n", " ">> \o Destroyed

\* C16: an error is classified as session-expired exactly when its status
\* is 410 or 404 or its message matches, in any letter case, "destroyed",
\* "expired", "not found", "gone" or "session ... closed"; so it is for
\* status 404 and for the message "Session destroyed", and it is not for
\* status 200 or the message "Invalid code".  The catch block of execute
\* reports the expiry for exactly these errors.
C16_ExpiredClassification ==
  /\ isSessionExpiredError(ErrorValue(InvalidCode, {404}))
  /\ isSessionExpiredError(ErrorValue(SessionDestroyed, Undef))
  /\ ~isSessionExpiredError(ErrorValue(InvalidCode, {200}))
  /\ ~isSessionExpiredError(ErrorValue(InvalidCode, Undef))
  /\ (thrown # {} /\ Executes({"python", "node"})) =>
       /\ isSessionExpiredError(Val(thrown)) <=> ExpiredAsClaimed(Val(thrown))
       /\ bout[1].kind = "Expired" <=> ExpiredAsClaimed(Val(thrown))

\* C16 witness: an error without a status whose message says, on one line,
\* that the session was closed, and nothing else that matches, was reported
\* as an expiry.
C16_Witness ==
  /\ thrown # {}
  /\ Executes({"python", "node"})
  /\ Val(thrown).status = Undef
  /\ SessionClosedPhrase(Val(thrown).message)
  /\ ~MatchesIgnoringCase(Val(thrown).message, Destroyed)
  /\ bout[1].kind = "Expired"

\* C17: when browserExecute fails with an error classified as
\* session-expired, the command exits with code 1, having cleared the
\* stored record if no explicit session id was passed and having left the
\* store as it was if one was passed.
C17_ExpiredClearsStoredOnly ==
  [][ (bpc = "execute" /\ thrown' # {} /\ ExpiredAsClaimed(Val(thrown'))) =>
        /\ bexit' = {1}
        /\ bout'[1].kind = "Expired"
        /\ IF Val(options).session = Undef
             THEN store' = {}
             ELSE store' = store ]_vars

\* C17 witness: an execute on the stored session failed with an expiry and
\* the store is empty.
C17_Witness ==
  /\ Ended("execute", 1)
  /\ Val(options).session = Undef
  /\ Len(bcalls) = 1
  /\ thrown # {}
  /\ bout[1].kind = "Expired"
  /\ store = {}

\* What the execute command ran: the code sent to browserExecute, or the
\* command given to executeBashLocally.
HandedToExecution == Val(options).code

DefaultMode == ~Val(argv).python /\ ~Val(argv).node /\ ~Val(argv).bash

\* C18: an execute without --python, --node or --bash runs the code as
\* typed if it starts with "agent-browser", and with "agent-browser " put
\* in front of it if it does not; with --bash, --python or --node the code
\* is run as typed.
C18_AutoPrefix ==
  (argv # Undef /\ options # Undef) =>
    IF DefaultMode /\ ~StartsWith(Val(argv).code, AgentBrowser)
      THEN HandedToExecution = AgentBrowser \o <<" ">> \o Val(argv).code
      ELSE HandedToExecution = Val(argv).code

\* C18 witness: the one-letter command "c", typed without a language flag,
\* is run as "agent-browser c".
C18_Witness ==
  /\ argv # Undef
  /\ options # Undef
  /\ DefaultMode
  /\ Val(argv).code = <<"c">>
  /\ bpc = "spawn"
  /\ StartsWith(bcalls[1].command, AgentBrowser \o <<" ", "c">>)

\* The whitespace-separated words of a string, in order.
RECURSIVE Words(_)
Words(s) ==
  IF s = <<>> THEN <<>>
  ELSE IF Head(s) = " " THEN Words(Tail(s))
  ELSE LET n == IF \E i \in DOMAIN s : s[i] = " "
                  THEN (CHOOSE i \in DOMAIN s :
                          s[i] = " " /\ \A j \in 1..(i - 1) : s[j] # " ") - 1
                  ELSE Len(s)
       IN  <<SubSeq(s, 1, n)>> \o Words(SubSeq(s, n + 1, Len(s)))

\* The command handleBrowserExecute gave to executeBashLocally and what
\* that one gave to sh -c.
BashCommand == Val(options).code

SpawnedCommand == bcalls[Len(bcalls)].command

SpawnedCdp == <<CdpFlag, <<"'">> \o bcalls[Len(bcalls)].CDP_URL \o <<"'">> >>

\* C19 (as claimed): a bash command that starts with "agent-browser" and
\* has no "--cdp" in it is run with --cdp '<CDP URL of the session>' right
\* after its first two whitespace-separated words, the other words being
\* the same and in the same order; any other command is run unchanged.
C19_CdpAfterTwoWords ==
  bpc = "spawn" =>
    IF StartsWith(BashCommand, AgentBrowser) /\ ~Includes(BashCommand, CdpFlag)
      THEN LET ws == Words(BashCommand)
               n == Min(2, Len(ws))
           IN  Words(SpawnedCommand) =
                 SubSeq(ws, 1, n) \o SpawnedCdp \o SubSeq(ws, n + 1, Len(ws))
      ELSE SpawnedCommand = BashCommand

\* What the command wrote through writeOutput or as a JSON record.
SuccessOutput == SelectSeq(bout, LAMBDA m : m.stream = "output")

\* C20: when the local command of a bash execute ends with a non-zero exit
\* code, handleBrowserExecute writes the captured stderr to stderr if there
\* is any, then the captured stdout to stdout if there is any, exits with
\* code 1 and writes no success output.
C20_FailedChildOutput ==
  (result # Undef /\ Val(result).exitCode # 0) =>
    /\ bexit = {1}
    /\ bout = (IF Val(result).stderr # <<>>
                 THEN <<[stream |-> "stderr", kind |-> "Raw",
                         detail |-> Val(result).stderr]>>
                 ELSE <<>>)
              \o (IF Val(result).stdout # <<>>
                    THEN <<[stream |-> "stdout", kind |-> "Raw",
                            detail |-> Val(result).stdout]>>
                    ELSE <<>>)
    /\ SuccessOutput = <<>>

\* C20 witness: the child printed on both streams and ended with a
\* non-zero code, under --json.
C20_Witness ==
  /\ result # Undef
  /\ Val(result).exitCode # 0
  /\ Val(result).stderr # <<>>
  /\ Val(result).stdout # <<>>
  /\ Val(options).json
  /\ Len(bout) = 2

\* ------------------------------------------------------ shorthand claims
\* The positions in bcalls of the calls of the given API.
CallsOf(api) == {i \in DOMAIN bcalls : bcalls[i].api = api}

\* The shorthand is the command that runs or ran last.
QuickRuns == options # Undef /\ Val(options).command = "quick"

\* A step that starts the shorthand.
QuickStarts == bpc = "idle" /\ clock' = clock + 1 /\ Val(options').command = "quick"

\* The shorthand has come to execute its code: the child process is there.
QuickExecuted == QuickRuns /\ CallsOf("spawn") # {}

\* In every state of the shorthand: at most one launch and one execution,
\* a launch comes before the execution, and the execution after a launch is
\* against the session the store holds by then.
QuickLaunchesOnceThenExecutes ==
  QuickRuns =>
    /\ Cardinality(CallsOf("browser")) <= 1
    /\ Cardinality(CallsOf("spawn")) <= 1
    /\ \A l \in CallsOf("browser"), e \in CallsOf("spawn") :
         /\ l < e
         /\ bpc = "spawn" =>
              store = {StoredBrowserSession(bcalls[e].SESSION_ID,
                                            bcalls[e].CDP_URL, clock)}

\* The step that starts the shorthand: with a stored session it executes
\* against that session without a launch, without one it launches and does
\* nothing else yet.
QuickStartsByTheStore ==
  QuickStarts =>
    IF store # {}
      THEN /\ bcalls'[1].api = "spawn"
           /\ Len(bcalls') = 1
           /\ \E r \in store : /\ bcalls'[1].SESSION_ID = r.id
                               /\ bcalls'[1].CDP_URL = r.cdpUrl
           /\ store' = store
      ELSE /\ bcalls' = <<[api |-> "browser"]>>
           /\ store' = store

\* C21: the shorthand never calls the remote launch when a session is
\* stored at call time and executes against that session directly; when none
\* is stored it launches exactly one session, persists it, and only then
\* executes the command.
C21_QuickExecute ==
  /\ []QuickLaunchesOnceThenExecutes
  /\ [][QuickStartsByTheStore]_vars

\* C21 witness: the store was empty, the shorthand launched session 2 (the
\* id 1 had been given out before), stored it and its child process ended.
C21_Witness ==
  /\ QuickExecuted
  /\ bpc = "idle"
  /\ CallsOf("browser") = {1}
  /\ CallsOf("spawn") = {2}
  /\ bcalls[2].SESSION_ID = 2
  /\ \E r \in store : r.id = 2
  /\ bexit = {0}

\* ------------------------------------------------------ persistence claims
\* The Saved lines written so far
SavedLines == SelectSeq(stderr, LAMBDA m : m.kind = "Saved")

\* The positions in urls of the URLs whose task has ended with a Saved line
SavedUrls == {SavedLines[k].idx : k \in DOMAIN SavedLines}

\* result.data of the scrape of urls[i], which succeeded
PageOf(i) == (CHOOSE r \in scraped : r.idx = i).page

\* The files the task of urls[i] has written
FilesOf(i) == {f \in files : f.idx = i}

\* The file name the claim gives to a format
FixedName(fmt) ==
  CASE fmt = "markdown" -> "index.md"
    [] fmt = "html" -> "index.html"
    [] fmt = "rawHtml" -> "index.html"
    [] fmt = "links" -> "links.txt"
    [] fmt = "images" -> "images.txt"
    [] fmt = "summary" -> "summary.md"
    [] fmt = "screenshot" -> "screenshot.png"
    [] OTHER -> "index.json"

\* The field of the result a format's file is filled from: the first
\* non-empty of html and rawHtml for these two, the whole result for json
\* and for an unknown format.
FilledFrom(fmt, page) ==
  CASE fmt \in {"markdown", "links", "images", "summary", "screenshot"} -> fmt
    [] fmt \in {"html", "rawHtml"} -> IF page["html"] THEN "html" ELSE "rawHtml"
    [] OTHER -> "data"

\* The result carries what the format asks for
Carries(page, fmt) ==
  CASE fmt \in {"markdown", "links", "images", "summary", "screenshot"} -> page[fmt]
    [] fmt \in {"html", "rawHtml"} -> page["html"] \/ page["rawHtml"]
    [] OTHER -> TRUE

Segments(pathname) == SelectSeq(Split(pathname, "/"), LAMBDA part : part # <<>>)

\* A directory made of the host and the path segments alone, under the
\* base directory
HostAndSegments(url) ==
  Join(<<baseDir, StripWww(url.hostname)>> \o Segments(url.pathname), <<"/">>)

SameHostAndPath(u, v) ==
  u.parses /\ v.parses /\ u.hostname = v.hostname /\ u.pathname = v.pathname

ScrapeIssued == \E i \in DOMAIN attempts : attempts[i] > 0

\* s is the beginning of t
IsPrefix(s, t) == Len(s) <= Len(t) /\ s = SubSeq(t, 1, Len(s))

\* The positions in stderr of the summary line
SummaryLines == {k \in DOMAIN stderr : stderr[k].kind = "Completed"}

\* C24: once a scrape call has been issued, the map call has returned with
\* the links, the filter has been applied (the URLs scraped are the first of
\* the URLs that matched, themselves discovered links), the account status
\* has been read and reports no less credits than there are URLs, and the
\* confirmation has been asked and not refused unless --yes skipped it; the
\* summary line is written at most once, as the last line, when every
\* worker is done and every URL has its progress line.
C24_PhasesInOrder ==
  /\ ScrapeIssued =>
       /\ pc \in {"exec", "returned", "exited", "rejected"}
       /\ mapResult.success
       /\ mapResult.data = {links}
       /\ calls \cap {"map", "getStatus"} = {"map", "getStatus"}
       /\ matched # <<>>
       /\ Range(matched) \subseteq Range(links)
       /\ IsPrefix(urls, matched)
       /\ status.credits # Undef => Val(status.credits) >= Len(urls)
       /\ yes <=> "ask" \notin calls
       /\ \A k \in DOMAIN stderr : stderr[k].kind # "Aborted"
       /\ answer = Undef
  /\ Cardinality(SummaryLines) <= 1
  /\ \A k \in SummaryLines :
       /\ k = Len(stderr)
       /\ ScrapeIssued
       /\ \A w \in DOMAIN workers : workers[w].pc = "done"
       /\ Len(ProgressLines) = total
       /\ urlIndex = total

\* C24 witness: a run that went through the wizard and the confirmation
\* has scraped its two URLs and written the summary.
C24_Witness ==
  /\ SummaryLines # {}
  /\ {"wizard", "ask"} \subseteq calls
  /\ total = 2
  /\ Len(ProgressLines) = 2

\* The scrape calls issued so far for the URL at position i
Attempted(as, i) == IF i \in DOMAIN as THEN as[i] ELSE 0

\* The positions of the URLs a step claims
ClaimedByStep ==
  {i \in DOMAIN attempts' : Attempted(attempts', i) > Attempted(attempts, i)}

\* The positions of the URLs whose scrape has failed
FailedUrls ==
  {ProgressLines[k].idx : k \in {n \in DOMAIN ProgressLines :
                                   ProgressLines[n].kind = "Error"}}

\* In every state: the URLs claimed are the first urlIndex of the list, each
\* claimed once; no two workers hold the same URL; no worker holds a URL
\* that has failed.
ClaimedInOrderOnce ==
  /\ urlIndex <= Len(urls)
  /\ \A i \in DOMAIN attempts : attempts[i] = (IF i <= urlIndex THEN 1 ELSE 0)
  /\ \A v \in DOMAIN workers, w \in DOMAIN workers :
       (v # w /\ workers[v].idx # 0) => workers[v].idx # workers[w].idx
  /\ \A i \in FailedUrls :
       /\ attempts[i] = 1
       /\ \A w \in DOMAIN workers : workers[w].idx # i

\* In every step: the cursor does not decrease, and the URLs the step claims
\* are those the cursor passes, each claimed once by the step.
CursorOnlyIncreases ==
  /\ urlIndex' >= urlIndex
  /\ ClaimedByStep = (urlIndex + 1)..urlIndex'
  /\ \A i \in ClaimedByStep : Attempted(attempts', i) = Attempted(attempts, i) + 1

\* C25: workers claim URLs through a shared cursor that only increases: the
\* i-th claim is the i-th URL of the list, a URL once claimed is never
\* claimed again, and a failed URL is never retried.
C25_CursorClaimsInOrder ==
  /\ []ClaimedInOrderOnce
  /\ [][CursorOnlyIncreases]_vars

\* C25 witness: with two workers and three URLs, the first URL has failed,
\* its worker has gone on to the third URL and the second is still being
\* scraped.
C25_Witness ==
  /\ pc = "exec"
  /\ Len(urls) = 3
  /\ Len(workers) = 2
  /\ FailedUrls = {1}
  /\ urlIndex = 3
  /\ workers[1] = [pc |-> "scraping", idx |-> 3]
  /\ workers[2] = [pc |-> "scraping", idx |-> 2]

\* The positions of the URLs claimed so far
ClaimedUrls == {i \in DOMAIN attempts : attempts[i] > 0}

\* The positions of the URLs whose scrape call is still in flight: a worker
\* holds the URL and awaits executeScrape
AwaitedUrls == {workers[w].idx : w \in {v \in DOMAIN workers : workers[v].pc = "scraping"}}

\* The positions of the URLs whose scrape call has returned
ReturnedUrls == ClaimedUrls \ AwaitedUrls

\* The positions of the URLs whose scrape call has returned a success
SucceededUrls == {r.idx : r \in scraped}

\* C26: under every interleaving of the workers no update of the cursor or
\* of the counters is lost: the cursor is the number of URLs claimed so far,
\* completedCount the number of URLs whose scrape call has returned,
\* errorCount the number of those that returned a failure, and
\* errorCount <= completedCount <= cursor <= total.
C26_NoLostUpdate ==
  ExecutionStarted =>
    /\ urlIndex = Cardinality(ClaimedUrls)
    /\ completedCount = Cardinality(ReturnedUrls)
    /\ errorCount = Cardinality(ReturnedUrls \ SucceededUrls)
    /\ errorCount = Cardinality(FailedUrls)
    /\ errorCount <= completedCount
    /\ completedCount <= urlIndex
    /\ urlIndex <= total
    /\ total = Len(urls)

\* C26 witness: three URLs and two workers; two scrape calls have returned,
\* one of them a failure, and the third is in flight.
C26_Witness ==
  /\ pc = "exec"
  /\ total = 3
  /\ Len(workers) = 2
  /\ urlIndex = 3
  /\ completedCount = 2
  /\ errorCount = 1
  /\ Cardinality(AwaitedUrls) = 1

\* The progress lines written so far for the URL at position i
LinesOf(i) == {k \in DOMAIN ProgressLines : ProgressLines[k].idx = i}

\* C27 (as claimed): every URL that was attempted and whose task is over
\* has exactly one progress line, an Error line if its scrape failed and a
\* Saved line if it succeeded, and once the execution phase is over the
\* progress lines are as many as the URLs.
C27_OneProgressLinePerUrl ==
  /\ \A i \in ReturnedUrls :
       (\A w \in DOMAIN workers : ~(workers[w].idx = i /\ workers[w].pc = "fetching")) =>
         /\ Cardinality(LinesOf(i)) = 1
         /\ \A k \in LinesOf(i) :
              ProgressLines[k].kind = (IF i \in SucceededUrls THEN "Saved" ELSE "Error")
  /\ ExecutionEnded => Len(ProgressLines) = total

\* C28 (as claimed): the completed value of the k-th progress line is k,
\* so that the values of the lines are distinct and go up by one from line
\* to line.
C28_ProgressNumbersCountUp ==
  \A k \in DOMAIN ProgressLines : ProgressLines[k].n = k

\* The discovered URLs of the run are distinct
DistinctUrls == \A i, j \in DOMAIN urls : i # j => urls[i] # urls[j]

\* The directories the task of the i-th URL has created or written a file in
TouchedBy(i) ==
  {m.dir : m \in {m \in made : m.idx = i}} \cup {f.dir : f \in FilesOf(i)}

\* C29 (as claimed): when the discovered URLs are distinct, every mkdirSync
\* and writeFileSync of a task goes to the directory of the task's own URL,
\* and no directory is written to by two tasks of the run.
C29_OwnDirectoryOnly ==
  DistinctUrls =>
    /\ \A i \in DOMAIN urls : \A d \in TouchedBy(i) : d = DirOf(urls[i])
    /\ \A i, j \in DOMAIN urls : i # j => TouchedBy(i) \cap TouchedBy(j) = {}

\* The i-th URL's task has no screenshot.png among the files in fs
NoShotIn(fs, i) == \A f \in fs : f.idx = i => f.name # "screenshot.png"

\* Worker w was awaiting the download of a screenshot and this step ends
\* the await without a screenshot.png: the fetch threw or its response was
\* not ok.
DownloadFailed(w) ==
  /\ w \in DOMAIN workers
  /\ workers[w].pc = "fetching"
  /\ TaskOf(w) \notin tasks'
  /\ NoShotIn(files', workers[w].idx)

\* What the claim says of such a step: no error is counted and nothing is
\* thrown; every other requested format the result carries has its file
\* once the loop is over, the Saved line of the URL follows, and the worker
\* claims the URL under the cursor, or ends when there is none left.
StillASuccess(w) ==
  LET i == workers[w].idx
      page == TaskOf(w).page
      due == {fmt \in Range(EffectiveFormats) \ {"screenshot"} : Carries(page, fmt)}
      mine == {f \in files' : f.idx = i}
  IN  /\ errorCount' = errorCount
      /\ pc' = "exec"
      /\ workers'[w].pc # "rejected"
      /\ (\A t \in tasks' : t.w # w) =>
           /\ \A fmt \in due :
                \E f \in mine :
                  f.name = FixedName(fmt) /\ f.content = FilledFrom(fmt, page)
           /\ \E n \in 0..Len(EffectiveFormats) :
                stderr' = Append(stderr, SavedLine(completedCount, i, n))
           /\ workers'[w] = IF urlIndex < Len(urls)
                              THEN [pc |-> "scraping", idx |-> urlIndex + 1]
                              ELSE [pc |-> "done", idx |-> 0]

\* C30: when the download of a returned screenshot fails, the task goes on
\* as a success: errorCount stays, the files of the other requested formats
\* are written, the Saved line is printed without screenshot.png, and the
\* worker goes to its next URL.
C30_FailedDownloadIsNoFailure ==
  [][\A w \in DOMAIN workers : DownloadFailed(w) => StillASuccess(w)]_vars

\* C30 witness: markdown, screenshot and links were asked for, a result
\* carried all three, the download failed, and the task saved index.md and
\* links.txt and no screenshot.png; no error was counted and the one worker
\* is scraping the next URL.
C30_Witness ==
  /\ formats = {<<"markdown", "screenshot", "links">>}
  /\ errorCount = 0
  /\ Len(workers) = 1
  /\ \E i \in SavedUrls :
       /\ PageOf(i)["screenshot"]
       /\ {f.name : f \in FilesOf(i)} = {"index.md", "links.txt"}
       /\ workers[1] = [pc |-> "scraping", idx |-> i + 1]

\* The execution phase is over as the claim says: every worker has left its
\* loop, every URL has had its scrape call, and the summary line is written.
RanToCompletion ==
  /\ AllWorkersDone
  /\ \A i \in DOMAIN urls : Attempted(attempts, i) > 0
  /\ SummaryLines # {}

\* C31 (as claimed): once the execution phase has started, and when every
\* call that was issued returns, every worker ends, every URL is attempted
\* and the summary line is written.
C31_RunsToCompletion == (pc = "exec") ~> RanToCompletion

\* The scrape calls that failed: the client rejected
FailedAnswers == {a \in answers : ~a.settled.resolved}

\* The Error lines written so far
ErrorLines == SelectSeq(stderr, LAMBDA m : m.kind = "Error")

\* What result.error holds for a thrown value
ErrorText(error) == IF error.isError THEN error.message ELSE UnknownError

\* C32: every failed scrape call, whatever the client threw, is counted in
\* errorCount once and reported by an Error line with the text of the
\* error, is never saved as a success and never makes a worker throw; and
\* every result saved as a success is the document of a call that
\* resolved.
C32_FailedCallsAreCounted ==
  /\ errorCount = Cardinality(FailedAnswers)
  /\ Len(ErrorLines) = Cardinality(FailedAnswers)
  /\ \A a \in FailedAnswers :
       /\ \E k \in DOMAIN ErrorLines :
            /\ ErrorLines[k].idx = a.idx
            /\ ErrorLines[k].error = ErrorText(Val(a.settled.thrown))
       /\ \A r \in scraped : r.idx # a.idx
       /\ \A w \in DOMAIN workers :
            workers[w].pc = "rejected" => workers[w].idx # a.idx
  /\ \A r \in scraped :
       [idx |-> r.idx, settled |-> Resolves(r.page)] \in answers

\* C32 witness: one call failed in the transport, one with a failure the
\* API reported and one with a thrown value that is no Error; all three are
\* counted and the run ended with its summary.
C32_Witness ==
  /\ SummaryLines # {}
  /\ errorCount = 3
  /\ {Val(a.settled.thrown).isError : a \in FailedAnswers} = {TRUE, FALSE}
  /\ \E a \in FailedAnswers : Val(a.settled.thrown).status # Undef

\* This step ends a close command that did not report the session closed:
\* no id could be resolved, deleteBrowser returned success:false, or it
\* threw.
CloseEndsUnconfirmed ==
  /\ bpc' = "idle"
  /\ bpc = "close" \/ (bpc = "idle" /\ clock' # clock)
  /\ options' # Undef
  /\ Val(options').command = "close"
  /\ \A k \in DOMAIN bout' : bout'[k].kind # "Closed"

\* C33: a close command that ends without the session confirmed closed
\* exits with code 1 and leaves the session store as it was.
C33_FailedCloseKeepsStore ==
  [][CloseEndsUnconfirmed => (bexit' = {1} /\ store' = store)]_vars

\* C33 witness: the close of the stored session failed after deleteBrowser
\* was called, and the record of that session is still in the store.
C33_Witness ==
  /\ Ended("close", 1)
  /\ bcalls # <<>>
  /\ \E rec \in store : rec.id = ClosedId

\* This step ends an execute command in a failure that is no thrown
\* session-expired error: the command exits with code 1 and what it caught,
\* if anything, is not classified as expired; or the response reported an
\* error of the code.
ExecuteFailsNotExpired ==
  /\ bpc' = "idle"
  /\ bpc \in {"execute", "list", "spawn"} \/ (bpc = "idle" /\ clock' # clock)
  /\ options' # Undef
  /\ Val(options').command = "execute"
  /\ \/ bexit' = {1} /\ \A error \in thrown' : ~isSessionExpiredError(error)
     \/ \E k \in DOMAIN bout' : bout'[k].kind = "CodeError"

\* C34: a failure of the execute command other than a thrown
\* session-expired error leaves the session store as it was.
C34_OtherFailuresKeepStore ==
  [][ExecuteFailsNotExpired => store' = store]_vars

\* C34 witness: an execute without --session, against the stored session,
\* ended with code 1 on a thrown error that is not classified as expired,
\* and the stored record is still there.
C34_Witness ==
  /\ Ended("execute", 1)
  /\ Val(options).session = Undef
  /\ Val(options).language # "bash"
  /\ \E error \in thrown : ~isSessionExpiredError(error)
  /\ store # {}

\* The command that started last is an execute in bash
BashRun ==
  /\ options # Undef
  /\ Val(options).command = "execute"
  /\ Val(options).language = "bash"

\* The positions in bcalls of the calls to api
CallsTo(api) == {k \in DOMAIN bcalls : bcalls[k].api = api}

\* The session of the k-th call, a spawn, as the child's environment has it
SpawnedSession(k) == [id |-> bcalls[k].SESSION_ID, cdpUrl |-> bcalls[k].CDP_URL]

\* The stored record without its date
StoredSessions == {[id |-> rec.id, cdpUrl |-> rec.cdpUrl] : rec \in store}

\* What a bash execute has done so far, by the way its session is resolved
BashSessionResolved ==
  BashRun =>
    LET session == Val(options).session
        spawns == CallsTo("spawn")
        lists == CallsTo("listBrowsers")
    IN  /\ \A k \in spawns :
             /\ SpawnedSession(k).id \in SessionIds
             /\ SpawnedSession(k).cdpUrl # <<>>
             /\ k = Len(bcalls)
        /\ Cardinality(spawns) <= 1
        /\ IF session = Undef
             THEN /\ lists = {}
                  /\ \A k \in spawns : SpawnedSession(k) \in StoredSessions
                  /\ store = {} => spawns = {} /\ bexit = {1}
                  /\ store # {} => spawns # {}
             ELSE IF \E rec \in store : rec.id = Val(session)
               THEN /\ lists = {}
                    /\ spawns # {}
                    /\ \A k \in spawns : /\ SpawnedSession(k) \in StoredSessions
                                         /\ SpawnedSession(k).id = Val(session)
               ELSE /\ lists = {1}
                    /\ \A k \in spawns : SpawnedSession(k).id = Val(session)
                    /\ (bpc = "idle" /\ spawns = {}) => bexit = {1}

\* A step of a bash execute, from its start to its end
BashStep ==
  /\ options' # Undef
  /\ Val(options').command = "execute"
  /\ Val(options').language = "bash"
  /\ bpc # "idle" \/ clock' # clock

\* C35: a bash execute spawns its command only with a session that has an
\* id and a CDP URL: the stored record when no id is given or the given id
\* is the stored one, the session of that id found among the active ones
\* otherwise; with no session at all, or an id neither stored nor found, it
\* exits with code 1 and spawns nothing; and no step of it changes the
\* session store.
C35_BashSpawnsWithResolvedSession ==
  []BashSessionResolved /\ [][BashStep => store' = store]_vars

\* C35 witness: a bash execute with the id of a session that is not the
\* stored one has found it among the active sessions and spawned the
\* command with its id and CDP URL, the store holding another session.
C35_Witness ==
  /\ BashRun
  /\ Val(options).session = {2}
  /\ \E rec \in store : rec.id = 1
  /\ \E k \in CallsTo("spawn") : SpawnedSession(k) = [id |-> 2, cdpUrl |-> CdpUrl(2)]

\* The execution phase has been entered: the pool was started
PoolStarted == pc \in {"exec", "returned", "rejected"} \/ workers # <<>>

\* C36: whenever the pool is started there is at least one URL to scrape,
\* total is their number and at least one worker runs; and a run that ends
\* its execution phase with code 1 after the summary has at least one
\* failed scrape reported.
C36_NeverStartsEmpty ==
  /\ PoolStarted =>
       /\ total >= 1
       /\ total = Len(urls)
       /\ Len(workers) >= 1
  /\ (SummaryLines # {} /\ exitCode = {1}) =>
       /\ errorCount = total
       /\ errorCount >= 1
       /\ \E k \in DOMAIN stderr : stderr[k].kind = "Error"

\* C36 witness: with --limit 1 on a site where several URLs matched, the
\* one URL scraped failed and the run ended with code 1 after its summary.
C36_Witness ==
  /\ limit = {1}
  /\ Len(matched) > 1
  /\ total = 1
  /\ SummaryLines # {}
  /\ exitCode = {1}

\* The run was given a limit above zero and has gone past the filters
LimitInForce == limit # Undef /\ Val(limit) > 0 /\ "getStatus" \in calls

\* The first N of the filtered list, N being the limit
FirstOfFiltered == FirstN(SelectSeq(links, Survives), Val(limit))

\* The number the confirmation re-limited the run to, if it did
Relimited == {stderr[k].n : k \in {j \in DOMAIN stderr : stderr[j].kind = "Limiting"}}

\* C37 (as claimed): with a limit N above zero, the URLs of the credit
\* check, of the confirmation and of the execution phase are the first N of
\* the filtered list, in map order.
C37_LimitGivesFirstN ==
  LimitInForce => urls = FirstOfFiltered

\* C37 (amended): with a limit N above zero, the filtered list is the list
\* of links that pass the path filters, the credit check and the
\* confirmation prompt see its first N URLs (all of them when fewer
\* passed), and the execution phase scrapes these, or their first M when the
\* answer to the confirmation was a number M >= 1.
C37_LimitThenAnswer ==
  LimitInForce =>
    /\ matched = SelectSeq(links, Survives)
    /\ pc \in {"status", "ask", "answered"} => urls = FirstOfFiltered
    /\ \A k \in DOMAIN stderr :
         stderr[k].kind = "NotEnoughCredits" =>
           urls = FirstOfFiltered /\ stderr[k].need = Len(FirstOfFiltered)
    /\ IF Relimited = {}
         THEN urls = FirstOfFiltered
         ELSE /\ IsPrefix(urls, FirstOfFiltered)
              /\ Relimited = {Len(urls)}
    /\ PoolStarted => total = Len(urls) /\ DOMAIN attempts = DOMAIN urls

\* C37 witness: of three links the first and the third pass the filters,
\* the limit of 2 keeps both (it would have cut the third had it come before
\* the filters), and they are the URLs scraped.
C37_Witness ==
  /\ LimitInForce
  /\ Val(limit) = 2
  /\ Len(links) = 3
  /\ urls = <<links[1], links[3]>>
  /\ SummaryLines # {}

\* The map call found links and the filter phase is over
Filtered == pc \notin {"map", "wizard"} /\ links # <<>>

\* The path filters have left no URL: those of the flags when the wizard
\* did not run, the selection made in the wizard when it did.
NothingMatched ==
  /\ Filtered
  /\ \/ matched = <<>>
     \/ "wizard" \notin calls /\ SelectSeq(links, Survives) = <<>>

\* C38: when the path filters leave no URL, the run has exited with code 1
\* on the message that nothing matched, the account status was never
\* fetched, no confirmation was asked and no scrape call was issued.
C38_NothingMatchedIsFatal ==
  NothingMatched =>
    /\ pc = "exited"
    /\ exitCode = {1}
    /\ stderr # <<>>
    /\ stderr[Len(stderr)].kind = "NoUrlsMatched"
    /\ calls \cap {"getStatus", "ask"} = {}
    /\ workers = <<>>
    /\ attempts = <<>>
    /\ total = 0

\* C38 witness: the map call found three links, none of them under the
\* include path /c, and the run exited with code 1.
C38_Witness ==
  /\ Len(links) = 3
  /\ includePaths = {<< <<"/", "c">> >>}
  /\ matched = <<>>
  /\ pc = "exited"
  /\ exitCode = {1}
====
